---- MODULE Spec2Model ----
(***************************************************************************)
(* A model of speechbubble: the WaniKani client (wanikani/client.py), the  *)
(* domain records (wanikani/models.py), the sentence assembler             *)
(* (wanikani/sentence_builder.py) and the CLI driver (main.py).            *)
(*                                                                         *)
(* Python values are modelled as follows.                                  *)
(*   str    a sequence of code points, each code point a one-token TLA+    *)
(*          string: "verb" is <<"v","e","r","b">>.  Kana are named by      *)
(*          their romanisation in capitals: "HA" is U+306F, "WO" U+3092,   *)
(*          "I" U+3044, "NA" U+306A, "NO" U+306E; "K1".."K5" stand for the *)
(*          written forms of five vocabulary words.                        *)
(*   dict   a function whose DOMAIN is the set of keys present.            *)
(*   list   a sequence.                                                    *)
(*   None   NoneStr where a str is expected, NoneInt where an int is.      *)
(***************************************************************************)
EXTENDS Naturals, Integers, Sequences, FiniteSets, TLC

VARIABLES
    pc,             \* position of the caller's script
    assignments,    \* the progress response: assignments["data"]
    subjects,       \* the metadata response for vocabulary: vocab_data["data"]
    knowledge,      \* the UserKnowledge snapshot handed to the SentenceBuilder
    origin,        \* which code built the snapshot
    grammar_level,  \* SentenceBuilder.grammar_level
    started_vocab,  \* SentenceBuilder.started_vocab
    pos_dict,       \* last value returned by get_available_words_by_pos
    result,         \* last outcome of build_basic_sentence
    pos_tag,        \* the raw tag given to _normalize_pos
    pos_norm,       \* what _normalize_pos returned for it
    grammar_table,  \* the module-level dict GRAMMAR_ELEMENTS
    tier,           \* grammar_level of the builder asked for its elements
    grammar_ret,    \* last value returned by get_grammar_elements
    files,          \* wanikani/cache/<key>.json, for each key: its text
    clock,          \* datetime.now(), in seconds
    cache_ret,      \* the call of load_cache that has just ended, if any
    last_saved,     \* history: what save_cache last wrote to a file nobody
                    \* else has written since
    endpoint,       \* _make_request: the endpoint asked for
    server,         \* what the service answers for each page of the endpoint
    url,            \* _make_request: the page to ask for next
    results,        \* _make_request: the records collected so far
    req_pc,         \* _make_request: where the call stands
    req_ret,        \* _make_request: what the call returned or raised
    req_log,        \* history: the requests, responses and sleeps of the call
    openai_api_key, \* SentenceBuilder.openai_api_key
    num_sentences,  \* generate_sentence_with_gpt: the number asked for
    gpt_pc,         \* generate_sentence_with_gpt: where the call stands
    gpt_requests,   \* history: the model requests the call has issued
    gpt_reply,      \* what the model service answered
    gpt_ret,        \* generate_sentence_with_gpt: what the call returned or raised
    gpt_calls,      \* history: the calls made so far
    cli_pc,         \* main.py: where main stands
    cli_args,       \* main.py: args, as parse_args returned them
    cli_environ,    \* the environment variable OPENAI_API_KEY
    cli_keys,       \* main.py: wanikani_key and openai_key
    cli_vocab,      \* main.py: vocab_items, as far as main depends on them
    cli_exc,        \* the exception on its way to the handler of main
    cli_log,        \* history: what the run has done, in order
    cli_stderr,     \* the lines written to the error stream
    exit_status,    \* the exit status of the process
    use_cache,      \* get_user_knowledge: the argument use_cache
    agg_max_age,    \* get_user_knowledge: the argument max_age_hours
    agg_pc,         \* get_user_knowledge: where the call stands
    agg_ret,        \* get_user_knowledge: what the call returned or raised
    agg_log,        \* history: cache reads, requests and cache writes of the call
    agg_entry,      \* history: the cache file as it was when the call began
    agg_now,        \* history: the time at which the call began
    agg_calls,      \* history: the calls made so far
    prompt,         \* last value returned by get_vocabulary_prompt
    elements_ret,   \* last value returned by get_grammar_elements of the builder
    rt_pc,          \* the round trip of a snapshot: where it stands
    rt_data,        \* the round trip: what to_dict returned
    rt_back         \* the round trip: what from_dict or the cached call gave

\* the snapshot, the builder and what its callers hold
builderVars == <<pc, assignments, subjects, knowledge, origin, grammar_level,
                 started_vocab, pos_dict, result>>

posVars == <<pos_tag, pos_norm>>

grammarVars == <<grammar_table, tier, grammar_ret>>

cacheVars == <<files, clock, cache_ret, last_saved>>

requestVars == <<endpoint, server, url, results, req_pc, req_ret, req_log>>

\* the variables of the sentence assembler and of the cache
oldVars == <<builderVars, posVars, grammarVars, cacheVars>>

\* the variables of the network side and of the drivers
gptVars == <<openai_api_key, num_sentences, gpt_pc, gpt_requests, gpt_reply,
             gpt_ret, gpt_calls>>

cliVars == <<cli_pc, cli_args, cli_environ, cli_keys, cli_vocab, cli_exc, cli_log,
             cli_stderr, exit_status>>

aggVars == <<use_cache, agg_max_age, agg_pc, agg_ret, agg_log, agg_entry, agg_now,
             agg_calls>>

frameVars == <<prompt, elements_ret>>

rtVars == <<rt_pc, rt_data, rt_back>>

restVars == <<requestVars, gptVars, cliVars, aggVars, frameVars, rtVars>>

vars == <<oldVars, restVars>>

\* what a call of _make_request leaves alone
notRequestVars == <<oldVars, gptVars, cliVars, aggVars, frameVars, rtVars>>

\* what a call of generate_sentence_with_gpt leaves alone
notGptVars == <<oldVars, requestVars, cliVars, aggVars, frameVars, rtVars>>

\* what a run of main leaves alone
notCliVars == <<oldVars, requestVars, gptVars, aggVars, frameVars, rtVars>>

notAggVars == <<requestVars, gptVars, cliVars, frameVars, rtVars>>

-----------------------------------------------------------------------------
(* Bounds *)

\* number of vocabulary subjects the remote service knows
NumWords == 3

\* number of words a raw part-of-speech tag is made of, at most
MaxTagWords == 3

\* number of distinct keys the grammar tables are drawn over
NumGrammarKeys == 2

\* number of half hours the clock may advance
MaxTicks == 4

\* the largest max_age_hours a caller passes
MaxAgeHours == 1

-----------------------------------------------------------------------------
(* Python helpers *)

\* None in the place of a str: one token that is no code point
NoneStr == <<"<None>">>

\* None in the place of an int
NoneInt == 0 - 1

\* a variable that holds nothing yet
Unset == [unset |-> TRUE]

EmptyDict == [k \in {} |-> NoneStr]

\* dict.get(key, default)
DictGet(d, key, default) == IF key \in DOMAIN d THEN d[key] ELSE default

\* bool(v) of an Optional[str]
Truthy(v) == v # NoneStr /\ v # <<>>

\* sub in s, for two str
Contains(sub, s) ==
    \E i \in 0..(Len(s) - Len(sub)) :
        \A j \in 1..Len(sub) : s[i + j] = sub[j]

RECURSIVE Join(_)
\* "".join(parts)
Join(parts) == IF parts = <<>> THEN <<>> ELSE Head(parts) \o Join(Tail(parts))

\* the elements of a list, as a set
Range(s) == {s[i] : i \in DOMAIN s}

-----------------------------------------------------------------------------
(* wanikani/models.py *)

\* WaniKaniItem.primary_reading
primary_reading(item) ==
    LET primary_readings == SelectSeq(item.readings, LAMBDA r : r.primary)
    IN  IF primary_readings # <<>> THEN primary_readings[1].reading ELSE NoneStr

\* WaniKaniItem.primary_meaning
primary_meaning(item) ==
    LET primary_meanings == SelectSeq(item.meanings, LAMBDA m : m.primary)
    IN  IF primary_meanings # <<>> THEN <<primary_meanings[1].meaning>> ELSE NoneStr

-----------------------------------------------------------------------------
(* wanikani/sentence_builder.py *)

STR_verb == <<"v","e","r","b">>
STR_ichidan_verb == <<"i","c","h","i","d","a","n"," ">> \o STR_verb
STR_godan_verb == <<"g","o","d","a","n"," ">> \o STR_verb
STR_adjective == <<"a","d","j","e","c","t","i","v","e">>
STR_i_adjective == <<"I"," ">> \o STR_adjective
STR_na_adjective == <<"NA"," ">> \o STR_adjective
STR_no_adjective == <<"NO"," ">> \o STR_adjective
STR_noun == <<"n","o","u","n">>
STR_adverb == <<"a","d">> \o STR_verb
STR_expression == <<"e","x","p","r","e","s","s","i","o","n">>
STR_particles == <<"p","a","r","t","i","c","l","e","s">>
STR_verb_endings == <<"v","e","r","b","_","e","n","d","i","n","g","s">>
STR_beginner == <<"b","e","g","i","n","n","e","r">>
STR_intermediate == <<"i","n","t","e","r","m","e","d","i","a","t","e">>
STR_HA == <<"HA">>
STR_WO == <<"WO">>

Entry(c, r, m) == [characters |-> c, reading |-> r, meaning |-> m]

BeginnerParticles ==
    (STR_HA :> Entry(STR_HA, <<"w","a">>, "topic marker"))
    @@ (<<"GA">> :> Entry(<<"GA">>, <<"g","a">>, "subject marker"))
    @@ (STR_WO :> Entry(STR_WO, <<"o">>, "object marker"))
    @@ (<<"NI">> :> Entry(<<"NI">>, <<"n","i">>, "indirect object, destination"))
    @@ (<<"DE">> :> Entry(<<"DE">>, <<"d","e">>, "location of action"))
    @@ (<<"NO">> :> Entry(<<"NO">>, <<"n","o">>, "possession"))
    @@ (<<"TO">> :> Entry(<<"TO">>, <<"t","o">>, "with, and"))
    @@ (<<"MO">> :> Entry(<<"MO">>, <<"m","o">>, "also, too"))

BeginnerVerbEndings ==
    (<<"MA","SU">> :> Entry(<<"MA","SU">>, <<"m","a","s","u">>, "polite present"))
    @@ (<<"MA","SHI","TA">> :>
            Entry(<<"MA","SHI","TA">>, <<"m","a","s","h","i","t","a">>, "polite past"))
    @@ (<<"MA","SE","N">> :>
            Entry(<<"MA","SE","N">>, <<"m","a","s","e","n">>, "polite negative"))

IntermediateParticles ==
    (<<"HE">> :> Entry(<<"HE">>, <<"e">>, "towards"))
    @@ (<<"KA","RA">> :> Entry(<<"KA","RA">>, <<"k","a","r","a">>, "from"))
    @@ (<<"MA","DE">> :> Entry(<<"MA","DE">>, <<"m","a","d","e">>, "until"))
    @@ (<<"YO","RI">> :> Entry(<<"YO","RI">>, <<"y","o","r","i">>, "than"))
    @@ (<<"DA","KE">> :> Entry(<<"DA","KE">>, <<"d","a","k","e">>, "only"))

IntermediateVerbEndings ==
    (<<"TE">> :> Entry(<<"TE">>, <<"t","e">>, "te-form"))
    @@ (<<"TA">> :> Entry(<<"TA">>, <<"t","a">>, "past"))
    @@ (<<"NA","I">> :> Entry(<<"NA","I">>, <<"n","a","i">>, "negative"))

\* the module-level table, as the source file sets it
GRAMMAR_ELEMENTS ==
    (STR_beginner :>
        ((STR_particles :> BeginnerParticles)
         @@ (STR_verb_endings :> BeginnerVerbEndings)))
    @@ (STR_intermediate :>
        ((STR_particles :> IntermediateParticles)
         @@ (STR_verb_endings :> IntermediateVerbEndings)))

\* dict.update gone wrong: an entry already present is kept
DictUpdate_KeepFirst(d, items) ==
    [k \in DOMAIN d \cup DOMAIN items |->
        IF k \in DOMAIN d THEN d[k] ELSE items[k]]

\* dict.update: the entries of items replace and extend those of d
DictUpdate(d, items) ==
    [k \in DOMAIN d \cup DOMAIN items |->
        IF k \in DOMAIN items THEN items[k] ELSE d[k]]

\* one pass of the loop body of get_grammar_elements, for one level
MergeLevel(table, elements, level) ==
    IF level \in DOMAIN table
    THEN [category \in DOMAIN elements \cup DOMAIN table[level] |->
            IF category \in DOMAIN table[level]
            THEN DictUpdate(DictGet(elements, category, EmptyDict),
                            table[level][category])
            ELSE elements[category]]
    ELSE elements

\* SentenceBuilder.get_grammar_elements, reading the table given
get_grammar_elements(table, level) ==
    MergeLevel(table, MergeLevel(table, EmptyDict, STR_beginner), level)

\* line 96 gone wrong: elements[category] is bound to the dict of the table
\* itself, not to a new dict
category_dict_Aliased(level, category) ==
    [fresh |-> FALSE, level |-> level, category |-> category]

\* what line 96 binds elements[category] to: a new dict, which is no object of
\* the module-level table
category_dict(level, category) ==
    [fresh |-> TRUE, level |-> level, category |-> category]

RECURSIVE MergeCategories(_, _, _)
\* lines 94-97 for the categories given of one level: st holds the
\* module-level table, the object each key of elements is bound to, and the
\* new dicts; update writes to the object elements[category] is bound to
MergeCategories(st, level, categories) ==
    IF categories = {} THEN st
    ELSE LET category == CHOOSE c \in categories : TRUE
             items == st.table[level][category]
             bound ==
                IF category \in DOMAIN st.refs THEN st
                ELSE [st EXCEPT
                        !.refs = (category :> category_dict(level, category)) @@ @,
                        !.fresh = (category :> EmptyDict) @@ @]
             ref == bound.refs[category]
             updated ==
                IF ref.fresh
                THEN [bound EXCEPT !.fresh[category] = DictUpdate(@, items)]
                ELSE [bound EXCEPT
                        !.table[ref.level][ref.category] = DictUpdate(@, items)]
         IN  MergeCategories(updated, level, categories \ {category})

\* get_grammar_elements run over the objects it reads and writes
RunGetGrammarElements(table, level) ==
    LET start == [table |-> table, refs |-> EmptyDict, fresh |-> EmptyDict]
        pass(st, lv) ==
            IF lv \in DOMAIN st.table
            THEN MergeCategories(st, lv, DOMAIN st.table[lv])
            ELSE st
    IN  pass(pass(start, STR_beginner), level)

\* the module-level table once get_grammar_elements has returned
grammar_table_after(table, level) == RunGetGrammarElements(table, level).table

\* the dict get_grammar_elements returns, read through the objects
elements_returned(table, level) ==
    LET st == RunGetGrammarElements(table, level)
    IN  [category \in DOMAIN st.refs |->
            IF st.refs[category].fresh THEN st.fresh[category]
            ELSE st.table[st.refs[category].level][st.refs[category].category]]

\* _normalize_pos gone wrong: the NO adjective pattern is left out
normalize_pos_TwoAdjectives(pos) ==
    IF \E verb_type \in {STR_ichidan_verb, STR_godan_verb, STR_verb} :
            Contains(verb_type, pos)
    THEN STR_verb
    ELSE IF \E adj_type \in {STR_i_adjective, STR_na_adjective} :
            Contains(adj_type, pos)
    THEN STR_adjective
    ELSE pos

\* SentenceBuilder._normalize_pos
normalize_pos(pos) ==
    IF \E verb_type \in {STR_ichidan_verb, STR_godan_verb, STR_verb} :
            Contains(verb_type, pos)
    THEN STR_verb
    ELSE IF \E adj_type \in {STR_i_adjective, STR_na_adjective, STR_no_adjective} :
            Contains(adj_type, pos)
    THEN STR_adjective
    ELSE pos

\* SentenceBuilder._initialize_started_vocab: the ids added to started_vocab
initialize_started_vocab(k) ==
    {k.vocabulary[i].id : i \in
        {j \in DOMAIN k.vocabulary :
            Truthy(DictGet(k.vocabulary[j].user_specific_data,
                           "started_at", NoneStr))}}

\* the five fixed keys of pos_dict
PosKeys == {STR_verb, STR_noun, STR_adjective, STR_adverb, STR_expression}

RECURSIVE BucketOfPos(_, _, _)
\* the appends one word makes to the bucket key, one per matching tag
BucketOfPos(word, tags, key) ==
    IF tags = <<>> THEN <<>>
    ELSE (IF normalize_pos(Head(tags)) = key THEN <<word>> ELSE <<>>)
         \o BucketOfPos(word, Tail(tags), key)

RECURSIVE BucketOf(_, _, _)
\* the bucket key after the loop over the vocabulary
BucketOf(vocabulary, started, key) ==
    IF vocabulary = <<>> THEN <<>>
    ELSE (IF Head(vocabulary).id \notin started THEN <<>>
          ELSE BucketOfPos(Head(vocabulary), Head(vocabulary).parts_of_speech, key))
         \o BucketOf(Tail(vocabulary), started, key)

\* get_available_words_by_pos gone wrong: the started check is skipped
get_available_words_by_pos_Unfiltered(k, started) ==
    [key \in PosKeys |->
        BucketOf(k.vocabulary, {k.vocabulary[i].id : i \in DOMAIN k.vocabulary}, key)]

\* SentenceBuilder.get_available_words_by_pos
get_available_words_by_pos(k, started) ==
    [key \in PosKeys |-> BucketOf(k.vocabulary, started, key)]

\* isinstance(item, dict): a grammar entry, not a WaniKaniItem
IsDict(item) == "id" \notin DOMAIN item

Returned(japanese, reading, items) ==
    [kind |-> "sentence", japanese |-> japanese, reading |-> reading,
     sentence_items |-> items]

ReturnedNone == [kind |-> "none"]

Raised(exc) == [kind |-> "raised", exc |-> exc]

\* the tail of build_basic_sentence gone wrong: the two particles swapped
Assemble_ParticlesSwapped(subject, object_, verb, grammar) ==
    LET particles == DictGet(grammar, STR_particles, EmptyDict)
        sentence_items ==
            <<subject, particles[STR_WO], object_, particles[STR_HA], verb>>
        chars == [i \in 1..5 |-> sentence_items[i].characters]
        reads == [i \in 1..5 |->
                    IF IsDict(sentence_items[i])
                    THEN sentence_items[i].reading
                    ELSE primary_reading(sentence_items[i])]
    IN  IF \E i \in 1..5 : reads[i] = NoneStr
        THEN Raised("TypeError")
        ELSE Returned(Join(chars), Join(reads), sentence_items)

\* the tail of build_basic_sentence once the three words are chosen
Assemble(subject, object_, verb, grammar) ==
    LET particles == DictGet(grammar, STR_particles, EmptyDict)
    IN  IF STR_HA \notin DOMAIN particles \/ STR_WO \notin DOMAIN particles
        THEN Raised("KeyError")
        ELSE LET sentence_items ==
                    <<subject, particles[STR_HA], object_, particles[STR_WO], verb>>
                 chars == [i \in 1..5 |-> sentence_items[i].characters]
                 reads == [i \in 1..5 |->
                            IF IsDict(sentence_items[i])
                            THEN sentence_items[i].reading
                            ELSE primary_reading(sentence_items[i])]
             IN  IF \E i \in 1..5 : reads[i] = NoneStr
                 THEN Raised("TypeError")
                 ELSE Returned(Join(chars), Join(reads), sentence_items)

\* build_basic_sentence gone wrong: the object is drawn from all the nouns
build_basic_sentence_AnyObject(k, started, table, level) ==
    LET available_words == get_available_words_by_pos(k, started)
        grammar == get_grammar_elements(table, level)
        nouns == available_words[STR_noun]
        verbs == available_words[STR_verb]
    IN  IF nouns = <<>> \/ verbs = <<>>
        THEN {ReturnedNone}
        ELSE {Assemble(subject, object_, verb, grammar) :
                subject \in Range(nouns), object_ \in Range(nouns),
                verb \in Range(verbs)}

\* SentenceBuilder.build_basic_sentence: every outcome random.choice allows
build_basic_sentence(k, started, table, level) ==
    LET available_words == get_available_words_by_pos(k, started)
        grammar == get_grammar_elements(table, level)
        nouns == available_words[STR_noun]
        verbs == available_words[STR_verb]
    IN  IF nouns = <<>> \/ verbs = <<>>
        THEN {ReturnedNone}
        ELSE UNION {
                LET others == SelectSeq(nouns, LAMBDA n : n # subject)
                IN  IF others = <<>>
                    THEN {Raised("IndexError")}
                    ELSE {Assemble(subject, object_, verb, grammar) :
                            object_ \in Range(others), verb \in Range(verbs)}
                : subject \in Range(nouns)}

-----------------------------------------------------------------------------
(* wanikani/client.py *)

\* WaniKaniAPI._convert_to_wanikani_item
convert_to_wanikani_item(raw_data, srs_stage) ==
    LET data == raw_data.data
    IN  [id |-> raw_data.id,
         object |-> raw_data.object,
         level |-> data.level,
         characters |-> data.characters,
         meanings |-> [i \in DOMAIN data.meanings |->
                        [meaning |-> data.meanings[i].meaning,
                         primary |-> DictGet(data.meanings[i], "primary", FALSE),
                         accepted_answer |->
                            DictGet(data.meanings[i], "accepted_answer", TRUE)]],
         readings |-> [i \in DOMAIN data.readings |->
                        [reading |-> data.readings[i].reading,
                         primary |-> DictGet(data.readings[i], "primary", FALSE),
                         accepted_answer |->
                            DictGet(data.readings[i], "accepted_answer", TRUE),
                         type |-> DictGet(data.readings[i], "type", "reading")]],
         parts_of_speech |-> DictGet(data, "parts_of_speech", <<>>),
         component_subject_ids |-> DictGet(data, "component_subject_ids", <<>>),
         srs_stage |-> srs_stage,
         user_specific_data |-> DictGet(raw_data, "user_specific_data", EmptyDict)]

\* the place of the last record of the list that is kept and has key k: in
\* a dict comprehension the last record with a key sets its value
LastIndex(kept, keys, k) ==
    CHOOSE i \in kept : keys[i] = k /\ \A j \in kept : keys[j] = k => j <= i

\* assignment_lookup of get_user_knowledge
assignment_lookup(asg) ==
    LET kept == {i \in DOMAIN asg :
                    DictGet(asg[i].data, "started_at", NoneStr) # NoneStr}
        keys == [i \in DOMAIN asg |-> asg[i].data.subject_id]
    IN  [k \in {keys[i] : i \in kept} |->
            asg[LastIndex(kept, keys, k)].data.srs_stage]

\* WaniKaniAPI.get_user_knowledge with use_cache false, given the responses
get_user_knowledge(user_info, asg, vocab_data, kanji_data) ==
    LET lookup == assignment_lookup(asg)
    IN  [vocabulary |-> [i \in DOMAIN vocab_data |->
            convert_to_wanikani_item(vocab_data[i],
                                     DictGet(lookup, vocab_data[i].id, NoneInt))],
         kanji |-> [i \in DOMAIN kanji_data |->
            convert_to_wanikani_item(kanji_data[i],
                                     DictGet(lookup, kanji_data[i].id, NoneInt))],
         level |-> DictGet(user_info, "level", 1)]

-----------------------------------------------------------------------------
(* main.py *)

STR_vocabulary == <<"v","o","c","a","b","u","l","a","r","y">>
STR_kanji == <<"k","a","n","j","i">>

\* the placeholder date fetch_vocabulary writes into every item
STR_placeholder_date == <<"2","0","2","4","-","0","1","-","0","1">>

\* started_vocab of fetch_vocabulary
started_vocab_of(asg) ==
    LET kept == {i \in DOMAIN asg :
                    /\ DictGet(asg[i].data, "started_at", NoneStr) # NoneStr
                    /\ asg[i].data.subject_type = STR_vocabulary}
        keys == [i \in DOMAIN asg |-> asg[i].data.subject_id]
    IN  [k \in {keys[i] : i \in kept} |->
            DictGet(asg[LastIndex(kept, keys, k)].data, "srs_stage", 0)]

\* the WaniKaniItem fetch_vocabulary builds from one metadata record
vocab_item(item, srs_stage) ==
    [convert_to_wanikani_item(item, srs_stage)
        EXCEPT !.user_specific_data = [k \in {"started_at"} |-> STR_placeholder_date]]

\* fetch_vocabulary, given the two responses
fetch_vocabulary(vocab_response, asg) ==
    LET started == started_vocab_of(asg)
        kept == SelectSeq(vocab_response, LAMBDA item : item.id \in DOMAIN started)
    IN  [i \in DOMAIN kept |-> vocab_item(kept[i], started[kept[i].id])]

\* the UserKnowledge generate_sentences wraps the items in
knowledge_of(vocab_items) == [vocabulary |-> vocab_items, kanji |-> <<>>, level |-> 3]

-----------------------------------------------------------------------------
(* json and datetime, as client.py uses them *)

\* JSON values, which are also the Python values json.load returns
JNull == [t |-> "null"]
JBool(b) == [t |-> "bool", bool |-> b]
JNum(n) == [t |-> "number", num |-> n]
JStr(str) == [t |-> "string", str |-> str]
JList(list) == [t |-> "array", items |-> list]
\* an object is the list of its members, in the order written
JObj(members) == [t |-> "object", members |-> members]
Member(key, value) == [k |-> key, v |-> value]

\* the lexemes of a JSON text
Punct(c) == [lex |-> "punct", c |-> c]
BoolLex(b) == [lex |-> "bool", bool |-> b]
NumberLex(n) == [lex |-> "number", num |-> n]
StringLex(str) == [lex |-> "string", str |-> str]
IsPunct(tok, c) == tok.lex = "punct" /\ tok.c = c

RECURSIVE json_dumps(_)
RECURSIVE DumpElements(_)
RECURSIVE DumpMembers(_)
\* json.dump: the text of a value
json_dumps(value) ==
    CASE value.t = "null" -> <<[lex |-> "null"]>>
      [] value.t = "bool" -> <<BoolLex(value.bool)>>
      [] value.t = "number" -> <<NumberLex(value.num)>>
      [] value.t = "string" -> <<StringLex(value.str)>>
      [] value.t = "array" -> <<Punct("[")>> \o DumpElements(value.items) \o <<Punct("]")>>
      [] OTHER -> <<Punct("{")>> \o DumpMembers(value.members) \o <<Punct("}")>>

DumpElements(list) ==
    IF list = <<>> THEN <<>>
    ELSE json_dumps(Head(list))
         \o (IF Tail(list) = <<>> THEN <<>> ELSE <<Punct(",")>> \o DumpElements(Tail(list)))

DumpMembers(members) ==
    IF members = <<>> THEN <<>>
    ELSE <<StringLex(Head(members).k), Punct(":")>>
         \o json_dumps(Head(members).v)
         \o (IF Tail(members) = <<>> THEN <<>> ELSE <<Punct(",")>> \o DumpMembers(Tail(members)))

ParseFail == [ok |-> FALSE]
ParseOk(value, next) == [ok |-> TRUE, value |-> value, next |-> next]

RECURSIVE ParseValue(_, _)
RECURSIVE ParseElements(_, _, _)
RECURSIVE ParseMembers(_, _, _)
\* the value that starts at lexeme i of the text, and where it ends
ParseValue(text, i) ==
    IF i > Len(text) THEN ParseFail
    ELSE LET tok == text[i]
         IN  CASE tok.lex = "null" -> ParseOk(JNull, i + 1)
               [] tok.lex = "bool" -> ParseOk(JBool(tok.bool), i + 1)
               [] tok.lex = "number" -> ParseOk(JNum(tok.num), i + 1)
               [] tok.lex = "string" -> ParseOk(JStr(tok.str), i + 1)
               [] IsPunct(tok, "[") ->
                    IF i + 1 <= Len(text) /\ IsPunct(text[i + 1], "]")
                    THEN ParseOk(JList(<<>>), i + 2)
                    ELSE ParseElements(text, i + 1, <<>>)
               [] IsPunct(tok, "{") ->
                    IF i + 1 <= Len(text) /\ IsPunct(text[i + 1], "}")
                    THEN ParseOk(JObj(<<>>), i + 2)
                    ELSE ParseMembers(text, i + 1, <<>>)
               [] OTHER -> ParseFail

ParseElements(text, i, acc) ==
    LET r == ParseValue(text, i)
    IN  IF ~r.ok \/ r.next > Len(text) THEN ParseFail
        ELSE IF IsPunct(text[r.next], ",")
        THEN ParseElements(text, r.next + 1, Append(acc, r.value))
        ELSE IF IsPunct(text[r.next], "]")
        THEN ParseOk(JList(Append(acc, r.value)), r.next + 1)
        ELSE ParseFail

ParseMembers(text, i, acc) ==
    IF i + 1 > Len(text) \/ text[i].lex # "string" \/ ~IsPunct(text[i + 1], ":")
    THEN ParseFail
    ELSE LET r == ParseValue(text, i + 2)
         IN  IF ~r.ok \/ r.next > Len(text) THEN ParseFail
             ELSE IF IsPunct(text[r.next], ",")
             THEN ParseMembers(text, r.next + 1, Append(acc, Member(text[i].str, r.value)))
             ELSE IF IsPunct(text[r.next], "}")
             THEN ParseOk(JObj(Append(acc, Member(text[i].str, r.value))), r.next + 1)
             ELSE ParseFail

\* json.load: the value of a text, or ParseFail (json.JSONDecodeError)
json_loads(text) ==
    LET r == ParseValue(text, 1)
    IN  IF r.ok /\ r.next = Len(text) + 1 THEN r ELSE ParseFail

DigitChars == <<"0", "1", "2", "3", "4", "5", "6", "7", "8", "9">>

RECURSIVE isoformat(_)
\* datetime.isoformat: the instant, written out in digits
isoformat(seconds) ==
    IF seconds < 10 THEN <<DigitChars[seconds + 1]>>
    ELSE isoformat(seconds \div 10) \o <<DigitChars[(seconds % 10) + 1]>>

IsDigit(c) == \E d \in 1..10 : DigitChars[d] = c

RECURSIVE FromDigits(_)
FromDigits(str) ==
    IF str = <<>> THEN 0
    ELSE 10 * FromDigits(SubSeq(str, 1, Len(str) - 1))
         + (CHOOSE d \in 0..9 : DigitChars[d + 1] = str[Len(str)])

\* datetime.fromisoformat: TypeError for what is no str, ValueError for a str
\* that is no date
fromisoformat(value) ==
    IF value.t # "string" THEN [ok |-> FALSE, exc |-> "TypeError"]
    ELSE IF value.str = <<>> \/ \E i \in DOMAIN value.str : ~IsDigit(value.str[i])
    THEN [ok |-> FALSE, exc |-> "ValueError"]
    ELSE [ok |-> TRUE, seconds |-> FromDigits(value.str)]

\* value[key] in Python: KeyError or TypeError where there is no such item
Subscript(value, key) ==
    IF value.t # "object" THEN [ok |-> FALSE, exc |-> "TypeError"]
    ELSE LET at == {i \in DOMAIN value.members : value.members[i].k = key}
         IN  IF at = {} THEN [ok |-> FALSE, exc |-> "KeyError"]
             ELSE [ok |-> TRUE,
                   value |-> value.members[CHOOSE i \in at : \A j \in at : j <= i].v]

\* bool(value) of what json.load returned
PyTruthy(value) ==
    CASE value.t = "null" -> FALSE
      [] value.t = "bool" -> value.bool
      [] value.t = "number" -> value.num # 0
      [] value.t = "string" -> value.str # <<>>
      [] value.t = "array" -> value.items # <<>>
      [] OTHER -> value.members # <<>>

-----------------------------------------------------------------------------
(* wanikani/models.py: to_dict and from_dict *)

\* a value or an exception, on its way through from_dict
Ok(value) == [ok |-> TRUE, value |-> value]
Err(exc) == [ok |-> FALSE, exc |-> exc]

\* Optional[str] and Optional[int] as dict values
OptStr(v) == IF v = NoneStr THEN JNull ELSE JStr(v)
OptInt(v) == IF v = NoneInt THEN JNull ELSE JNum(v)

RECURSIVE KeysInOrder(_)
\* the keys of a dict, in one order
KeysInOrder(keys) ==
    IF keys = {} THEN <<>>
    ELSE LET k == CHOOSE x \in keys : TRUE IN <<k>> \o KeysInOrder(keys \ {k})

\* user_specific_data as a dict value
UsdToDict(usd) ==
    LET keys == KeysInOrder(DOMAIN usd)
    IN  JObj([i \in DOMAIN keys |-> Member(keys[i], OptStr(usd[keys[i]]))])

\* Meaning.to_dict
meaning_to_dict(m) ==
    JObj(<<Member("meaning", JStr(<<m.meaning>>)), Member("primary", JBool(m.primary)),
           Member("accepted_answer", JBool(m.accepted_answer))>>)

\* Reading.to_dict
reading_to_dict(r) ==
    JObj(<<Member("reading", JStr(r.reading)), Member("primary", JBool(r.primary)),
           Member("accepted_answer", JBool(r.accepted_answer)),
           Member("type", JStr(<<r.type>>))>>)

\* WaniKaniItem.to_dict gone wrong: srs_stage is left out
item_to_dict_NoStage(item) ==
    JObj(<<Member("id", JNum(item.id)),
           Member("object", JStr(<<item.object>>)),
           Member("level", JNum(item.level)),
           Member("characters", JStr(item.characters)),
           Member("meanings",
                  JList([i \in DOMAIN item.meanings |-> meaning_to_dict(item.meanings[i])])),
           Member("readings",
                  JList([i \in DOMAIN item.readings |-> reading_to_dict(item.readings[i])])),
           Member("parts_of_speech",
                  JList([i \in DOMAIN item.parts_of_speech |->
                            JStr(item.parts_of_speech[i])])),
           Member("component_subject_ids",
                  JList([i \in DOMAIN item.component_subject_ids |->
                            JNum(item.component_subject_ids[i])])),
           Member("user_specific_data", UsdToDict(item.user_specific_data))>>)

\* WaniKaniItem.to_dict
item_to_dict(item) ==
    JObj(<<Member("id", JNum(item.id)),
           Member("object", JStr(<<item.object>>)),
           Member("level", JNum(item.level)),
           Member("characters", JStr(item.characters)),
           Member("meanings",
                  JList([i \in DOMAIN item.meanings |-> meaning_to_dict(item.meanings[i])])),
           Member("readings",
                  JList([i \in DOMAIN item.readings |-> reading_to_dict(item.readings[i])])),
           Member("parts_of_speech",
                  JList([i \in DOMAIN item.parts_of_speech |->
                            JStr(item.parts_of_speech[i])])),
           Member("component_subject_ids",
                  JList([i \in DOMAIN item.component_subject_ids |->
                            JNum(item.component_subject_ids[i])])),
           Member("srs_stage", OptInt(item.srs_stage)),
           Member("user_specific_data", UsdToDict(item.user_specific_data))>>)

\* UserKnowledge.to_dict
to_dict(k) ==
    JObj(<<Member("vocabulary",
                  JList([i \in DOMAIN k.vocabulary |-> item_to_dict(k.vocabulary[i])])),
           Member("kanji", JList([i \in DOMAIN k.kanji |-> item_to_dict(k.kanji[i])])),
           Member("level", JNum(k.level))>>)

\* the keys of a dict
KeysOf(value) == {value.members[i].k : i \in DOMAIN value.members}

\* cls(**data): the dict must be one, name every required field and no
\* field the class does not have
BindsTo(value, required, optional) ==
    /\ value.t = "object"
    /\ required \subseteq KeysOf(value)
    /\ KeysOf(value) \subseteq required \cup optional

\* Meaning(**m)
meaning_from_dict(m) ==
    IF ~BindsTo(m, {"meaning", "primary", "accepted_answer"}, {}) THEN Err("TypeError")
    ELSE Ok([meaning |-> Subscript(m, "meaning").value.str[1],
             primary |-> Subscript(m, "primary").value.bool,
             accepted_answer |-> Subscript(m, "accepted_answer").value.bool])

\* Reading(**r)
reading_from_dict(r) ==
    IF ~BindsTo(r, {"reading", "primary", "accepted_answer", "type"}, {})
    THEN Err("TypeError")
    ELSE Ok([reading |-> Subscript(r, "reading").value.str,
             primary |-> Subscript(r, "primary").value.bool,
             accepted_answer |-> Subscript(r, "accepted_answer").value.bool,
             type |-> Subscript(r, "type").value.str[1]])

\* the first exception of a list of outcomes, or the list of their values
AllOk(outcomes) ==
    IF \E i \in DOMAIN outcomes : ~outcomes[i].ok
    THEN Err(outcomes[CHOOSE i \in DOMAIN outcomes :
                        /\ ~outcomes[i].ok
                        /\ \A j \in 1..(i - 1) : outcomes[j].ok].exc)
    ELSE Ok([i \in DOMAIN outcomes |-> outcomes[i].value])

\* a dict value back as user_specific_data, None being kept as None
UsdFromDict(value) ==
    IF value.t = "null" THEN EmptyDict
    ELSE [key \in KeysOf(value) |->
            LET v == Subscript(value, key).value
            IN  IF v.t = "null" THEN NoneStr ELSE v.str]

ItemRequired ==
    {"id", "object", "level", "characters", "meanings", "readings", "parts_of_speech",
     "component_subject_ids"}

ItemOptional == {"srs_stage", "user_specific_data"}

\* WaniKaniItem.from_dict
item_from_dict(data) ==
    IF data.t = "array" THEN Err("TypeError")
    ELSE IF data.t # "object" THEN Err("AttributeError")
    ELSE IF ~Subscript(data, "meanings").ok THEN Err("KeyError")
    ELSE IF Subscript(data, "meanings").value.t # "array" THEN Err("TypeError")
    ELSE IF ~Subscript(data, "readings").ok THEN Err("KeyError")
    ELSE IF Subscript(data, "readings").value.t # "array" THEN Err("TypeError")
    ELSE LET ms == Subscript(data, "meanings").value.items
             rs == Subscript(data, "readings").value.items
             meanings == AllOk([i \in DOMAIN ms |-> meaning_from_dict(ms[i])])
             readings == AllOk([i \in DOMAIN rs |-> reading_from_dict(rs[i])])
         IN  IF ~meanings.ok THEN meanings
             ELSE IF ~readings.ok THEN readings
             ELSE IF ~BindsTo(data, ItemRequired, ItemOptional) THEN Err("TypeError")
             ELSE LET pos == Subscript(data, "parts_of_speech").value.items
                      ids == Subscript(data, "component_subject_ids").value.items
                      srs == IF "srs_stage" \in KeysOf(data)
                             THEN Subscript(data, "srs_stage").value ELSE JNull
                      usd == IF "user_specific_data" \in KeysOf(data)
                             THEN Subscript(data, "user_specific_data").value ELSE JNull
                  IN  Ok([id |-> Subscript(data, "id").value.num,
                          object |-> Subscript(data, "object").value.str[1],
                          level |-> Subscript(data, "level").value.num,
                          characters |-> Subscript(data, "characters").value.str,
                          meanings |-> meanings.value,
                          readings |-> readings.value,
                          parts_of_speech |-> [i \in DOMAIN pos |-> pos[i].str],
                          component_subject_ids |-> [i \in DOMAIN ids |-> ids[i].num],
                          srs_stage |-> IF srs.t = "null" THEN NoneInt ELSE srs.num,
                          user_specific_data |-> UsdFromDict(usd)])

\* the items of data[key], each through WaniKaniItem.from_dict
items_from_dict(data, key) ==
    LET list == Subscript(data, key)
    IN  IF ~list.ok THEN Err(list.exc)
        ELSE IF list.value.t \notin {"array", "object", "string"} THEN Err("TypeError")
        ELSE IF list.value.t = "object"
        THEN (IF list.value.members = <<>> THEN Ok(<<>>) ELSE Err("AttributeError"))
        ELSE IF list.value.t = "string"
        THEN (IF list.value.str = <<>> THEN Ok(<<>>) ELSE Err("AttributeError"))
        ELSE AllOk([i \in DOMAIN list.value.items |-> item_from_dict(list.value.items[i])])

\* UserKnowledge.from_dict
from_dict(data) ==
    LET vocabulary == items_from_dict(data, "vocabulary")
        kanji == items_from_dict(data, "kanji")
        level == Subscript(data, "level")
    IN  IF ~vocabulary.ok THEN vocabulary
        ELSE IF ~kanji.ok THEN kanji
        ELSE IF ~level.ok THEN level
        ELSE Ok([vocabulary |-> vocabulary.value, kanji |-> kanji.value,
                 level |-> IF level.value.t = "number" THEN level.value.num ELSE NoneInt])

-----------------------------------------------------------------------------
(* wanikani/client.py: the cache *)

SecondsPerHour == 3600

\* there is no file of that name
NoFile == <<[lex |-> "<no file>"]>>

\* the text save_cache writes
save_cache(data, now) ==
    json_dumps(JObj(<<Member("timestamp", JStr(isoformat(now))),
                      Member("data", data)>>))

ReturnedValue(value) == [kind |-> "returned", value |-> value]

CaughtByLoadCache == {"FileNotFoundError", "KeyError", "ValueError"}

\* what the except clause of load_cache makes of an exception
Except(exc) == IF exc \in CaughtByLoadCache THEN ReturnedValue(JNull) ELSE Raised(exc)

\* load_cache gone wrong: the whole envelope is returned, not its data
load_cache_Envelope(text, max_age_hours, now) ==
    IF text = NoFile THEN Except("FileNotFoundError")
    ELSE LET parsed == json_loads(text)
         IN  IF ~parsed.ok THEN Except("ValueError")
             ELSE LET cache_data == parsed.value
                      timestamp == Subscript(cache_data, "timestamp")
                  IN  IF ~timestamp.ok THEN Except(timestamp.exc)
                      ELSE LET cache_time == fromisoformat(timestamp.value)
                           IN  IF ~cache_time.ok THEN Except(cache_time.exc)
                               ELSE IF now - cache_time.seconds
                                        > max_age_hours * SecondsPerHour
                               THEN ReturnedValue(JNull)
                               ELSE ReturnedValue(cache_data)

\* load_cache, given the text of the file (or NoFile) and the time
load_cache(text, max_age_hours, now) ==
    IF text = NoFile THEN Except("FileNotFoundError")
    ELSE LET parsed == json_loads(text)
         IN  IF ~parsed.ok THEN Except("ValueError")
             ELSE LET cache_data == parsed.value
                      timestamp == Subscript(cache_data, "timestamp")
                  IN  IF ~timestamp.ok THEN Except(timestamp.exc)
                      ELSE LET cache_time == fromisoformat(timestamp.value)
                           IN  IF ~cache_time.ok THEN Except(cache_time.exc)
                               ELSE IF now - cache_time.seconds
                                        > max_age_hours * SecondsPerHour
                               THEN ReturnedValue(JNull)
                               ELSE LET data == Subscript(cache_data, "data")
                                    IN  IF ~data.ok THEN Except(data.exc)
                                        ELSE ReturnedValue(data.value)

-----------------------------------------------------------------------------
(* What the cache directory may hold *)

CacheKeys == {"knowledge_cache_a", "knowledge_cache_b"}

\* what callers save
Payloads ==
    { JObj(<<>>),
      JObj(<<Member("vocabulary", JList(<<>>)), Member("kanji", JList(<<>>)),
             Member("level", JNum(3))>>),
      JList(<<JNull, JStr(<<"a">>)>>) }

\* what something else than save_cache may leave in a cache file
ForeignTexts ==
    { <<>>,
      <<Punct("{"), StringLex("timestamp")>>,
      json_dumps(JList(<<>>)),
      json_dumps(JNull),
      json_dumps(JObj(<<Member("data", JObj(<<>>))>>)),
      json_dumps(JObj(<<Member("timestamp", JNum(0)), Member("data", JObj(<<>>))>>)),
      json_dumps(JObj(<<Member("timestamp", JStr(<<"z","z">>)),
                        Member("data", JObj(<<>>))>>)),
      json_dumps(JObj(<<Member("timestamp", JStr(isoformat(0)))>>)),
      save_cache(JObj(<<>>), 0) }

NotSaved == [saved |-> FALSE]

NoCall == [called |-> FALSE]

CacheIdle ==
    /\ files = [key \in CacheKeys |-> NoFile]
    /\ clock = 0
    /\ cache_ret = NoCall
    /\ last_saved = [key \in CacheKeys |-> NotSaved]

-----------------------------------------------------------------------------
(* The responses of the remote service, and snapshots built by hand *)

WordIds == 1..NumWords

\* the one kanji subject
KanjiId == NumWords + 1

WordChars == <<"K1", "K2", "K3", "K4", "K5">>
WordReads == <<"k1", "k2", "k3", "k4", "k5">>

STR_timestamp == <<"2","0","2","3","-","0","5","-","0","9">>
STR_suru_verb == <<"SU","RU"," ">> \o STR_verb

\* every third subject is a verb, the others are nouns
PosOfSubject(id) == IF id % 3 = 0 THEN <<STR_godan_verb>> ELSE <<STR_noun>>

NoRecord == [absent |-> TRUE]

AssignmentData(id, type, srs) ==
    [subject_id |-> id, subject_type |-> type, srs_stage |-> srs]

\* the progress record of one subject: none, or one of three records
AssignmentFor(id, type, c) ==
    CASE c = 0 -> NoRecord
      [] c = 1 -> [object |-> "assignment",
                   data |-> [k \in {"subject_id", "subject_type", "srs_stage",
                                    "started_at"} |->
                             IF k = "started_at" THEN NoneStr
                             ELSE IF k = "subject_id" THEN id
                             ELSE IF k = "subject_type" THEN type ELSE 0]]
      [] c = 2 -> [object |-> "assignment", data |-> AssignmentData(id, type, 5)]
      [] OTHER -> [object |-> "assignment",
                   data |-> [k \in {"subject_id", "subject_type", "srs_stage",
                                    "started_at"} |->
                             IF k = "started_at" THEN STR_timestamp
                             ELSE IF k = "subject_id" THEN id
                             ELSE IF k = "subject_type" THEN type ELSE 5]]

SubjectData(id, pos, readings) ==
    [level |-> 1, characters |-> <<WordChars[id]>>,
     meanings |-> <<[meaning |-> "m", primary |-> TRUE]>>,
     readings |-> readings, parts_of_speech |-> pos]

\* the metadata record of one subject: none, or one of three records
SubjectFor(id, object, pos, c) ==
    CASE c = 0 -> NoRecord
      [] c = 1 -> [id |-> id, object |-> object,
                   data |-> SubjectData(id, pos,
                              <<[reading |-> <<WordReads[id]>>, primary |-> TRUE]>>)]
      [] c = 2 -> [id |-> id, object |-> object,
                   data |-> SubjectData(id, pos,
                              <<[reading |-> <<WordReads[id]>>, primary |-> TRUE]>>),
                   user_specific_data |-> [k \in {"started_at"} |-> STR_timestamp]]
      [] OTHER -> [id |-> id, object |-> object,
                   data |-> SubjectData(id, pos, <<[reading |-> <<WordReads[id]>>]>>)]

RecordChoices == 0..3

RECURSIVE Present(_, _)
\* the records present among those of subjects 1..n, in id order
Present(f, n) ==
    IF n = 0 THEN <<>>
    ELSE Present(f, n - 1) \o (IF f[n] = NoRecord THEN <<>> ELSE <<f[n]>>)

KanjiAssignment == AssignmentFor(KanjiId, STR_kanji, 3)

KanjiSubject == SubjectFor(KanjiId, "kanji", <<>>, 1)

UserResponse == [data |-> [level |-> 3]]

\* the tags a hand-built item may carry
PosLists ==
    { <<STR_noun>>, <<STR_noun, STR_noun>>, <<STR_godan_verb>>,
      <<STR_noun, STR_suru_verb>>, <<STR_adverb>>,
      <<STR_na_adjective, STR_expression>> }

UsdChoices == { EmptyDict, [k \in {"started_at"} |-> STR_timestamp] }

DirectItem(id, pos, usd, primary) ==
    [id |-> id, object |-> "vocabulary", level |-> 1,
     characters |-> <<WordChars[id]>>,
     meanings |-> <<[meaning |-> "m", primary |-> TRUE, accepted_answer |-> TRUE]>>,
     readings |-> <<[reading |-> <<WordReads[id]>>, primary |-> primary,
                     accepted_answer |-> TRUE, type |-> "reading"]>>,
     parts_of_speech |-> pos, component_subject_ids |-> <<>>,
     srs_stage |-> 5, user_specific_data |-> usd]

\* the items a hand-built snapshot may hold for one id
DirectItems(id) ==
    {DirectItem(id, pos, usd, TRUE) : pos \in PosLists, usd \in UsdChoices}
    \cup {DirectItem(id, <<STR_noun>>, [k \in {"started_at"} |-> STR_timestamp], FALSE)}

RECURSIVE DirectLists(_)
\* the hand-built vocabulary lists of the words 1..n
DirectLists(n) ==
    IF n = 0 THEN {<<>>}
    ELSE {Append(f, item) : f \in DirectLists(n - 1), item \in DirectItems(n)}

-----------------------------------------------------------------------------
(* The network side at rest *)

\* None in the place of a URL; a URL is the number of the page it names
NoneUrl == 0

RequestIdle ==
    /\ endpoint = "none"
    /\ server = <<>>
    /\ url = NoneUrl
    /\ results = <<>>
    /\ req_pc = "idle"
    /\ req_ret = Unset
    /\ req_log = <<>>

\* no reply of the model service is at hand
NoReply == [fails |-> FALSE, has_content |-> FALSE, content |-> <<>>]

GptIdle ==
    /\ openai_api_key = NoneStr
    /\ num_sentences = 0
    /\ gpt_pc = "idle"
    /\ gpt_requests = 0
    /\ gpt_reply = NoReply
    /\ gpt_ret = Unset
    /\ gpt_calls = 0

\* args before parse_args has returned
NoArgs == [stats_only |-> FALSE, level |-> <<>>, num_sentences |-> 0]

\* no key has been read yet
NoKeys == [wanikani_key |-> NoneStr, openai_key |-> NoneStr]

CliIdle ==
    /\ cli_pc = "idle"
    /\ cli_args = NoArgs
    /\ cli_environ = NoneStr
    /\ cli_keys = NoKeys
    /\ cli_vocab = "none"
    /\ cli_exc = "none"
    /\ cli_log = <<>>
    /\ cli_stderr = <<>>
    /\ exit_status = NoneInt

AggIdle ==
    /\ use_cache = FALSE
    /\ agg_max_age = 0
    /\ agg_pc = "idle"
    /\ agg_ret = Unset
    /\ agg_log = <<>>
    /\ agg_entry = <<>>
    /\ agg_now = 0
    /\ agg_calls = 0

FrameIdle ==
    /\ prompt = [returned |-> FALSE, value |-> <<>>]
    /\ elements_ret = [returned |-> FALSE, value |-> EmptyDict]

RtIdle ==
    /\ rt_pc = "idle"
    /\ rt_data = JNull
    /\ rt_back = Unset

RestIdle == RequestIdle /\ GptIdle /\ CliIdle /\ AggIdle /\ FrameIdle /\ RtIdle

-----------------------------------------------------------------------------
(* The state machine *)

\* no call has returned a value yet
NotReturned == [returned |-> FALSE, value |-> EmptyDict]

NoBuilder ==
    /\ grammar_level = <<>>
    /\ started_vocab = {}
    /\ pos_dict = NotReturned
    /\ result = Unset

\* the variables of the other parts of the program, at rest
PosIdle == pos_tag = <<>> /\ pos_norm = NoneStr

GrammarIdle ==
    /\ grammar_table = GRAMMAR_ELEMENTS
    /\ tier = <<>>
    /\ grammar_ret = NotReturned

BuilderIdle ==
    /\ pc = "idle"
    /\ origin = "none"
    /\ assignments = <<>>
    /\ subjects = [vocabulary |-> <<>>, kanji |-> <<>>]
    /\ knowledge = Unset
    /\ NoBuilder

\* the two responses have arrived; nothing is built yet
Init ==
    /\ pc = "start"
    /\ origin = "none"
    /\ \E fa \in [WordIds -> RecordChoices], fm \in [WordIds -> RecordChoices] :
        /\ assignments =
            Present([id \in WordIds |-> AssignmentFor(id, STR_vocabulary, fa[id])],
                    NumWords) \o <<KanjiAssignment>>
        /\ subjects =
            [vocabulary |->
                Present([id \in WordIds |->
                            SubjectFor(id, "vocabulary", PosOfSubject(id), fm[id])],
                        NumWords),
             kanji |-> <<KanjiSubject>>]
    /\ knowledge = Unset
    /\ NoBuilder
    /\ PosIdle
    /\ GrammarIdle
    /\ CacheIdle
    /\ RestIdle

\* a snapshot built by hand, as tests/test_sentences.py builds one
InitBuilder ==
    /\ pc = "snapshot"
    /\ origin = "direct"
    /\ assignments = <<>>
    /\ subjects = [vocabulary |-> <<>>, kanji |-> <<>>]
    /\ \E n \in 0..NumWords :
        \E f \in DirectLists(n) :
            knowledge = [vocabulary |-> f, kanji |-> <<>>, level |-> 3]
    /\ NoBuilder
    /\ PosIdle
    /\ GrammarIdle
    /\ CacheIdle
    /\ RestIdle

\* main.py: fetch_vocabulary, then the UserKnowledge of generate_sentences
FetchVocabulary ==
    /\ pc = "start"
    /\ knowledge' = knowledge_of(fetch_vocabulary(subjects.vocabulary, assignments))
    /\ origin' = "fetch_vocabulary"
    /\ pc' = "snapshot"
    /\ UNCHANGED <<assignments, subjects, grammar_level, started_vocab, pos_dict, result>>
    /\ UNCHANGED <<posVars, grammarVars, cacheVars, restVars>>

\* client.py: get_user_knowledge(use_cache=False)
GetUserKnowledge ==
    /\ pc = "start"
    /\ knowledge' = get_user_knowledge(UserResponse.data, assignments,
                                       subjects.vocabulary, subjects.kanji)
    /\ origin' = "get_user_knowledge"
    /\ pc' = "snapshot"
    /\ UNCHANGED <<assignments, subjects, grammar_level, started_vocab, pos_dict, result>>
    /\ UNCHANGED <<posVars, grammarVars, cacheVars, restVars>>

\* SentenceBuilder.__init__
NewSentenceBuilder ==
    /\ pc = "snapshot"
    /\ \E level \in {STR_beginner, STR_intermediate} : grammar_level' = level
    /\ started_vocab' = initialize_started_vocab(knowledge)
    /\ pc' = "builder"
    /\ UNCHANGED <<assignments, subjects, knowledge, origin, pos_dict, result>>
    /\ UNCHANGED <<posVars, grammarVars, cacheVars, restVars>>

GetAvailableWordsByPos ==
    /\ pc = "builder"
    /\ pos_dict' = [returned |-> TRUE,
                    value |-> get_available_words_by_pos(knowledge, started_vocab)]
    /\ UNCHANGED <<pc, assignments, subjects, knowledge, origin, grammar_level,
                   started_vocab, result>>
    /\ UNCHANGED <<posVars, grammarVars, cacheVars, restVars>>

BuildBasicSentence ==
    /\ pc = "builder"
    /\ result' \in build_basic_sentence(knowledge, started_vocab, grammar_table,
                                        grammar_level)
    /\ grammar_table' = grammar_table_after(grammar_table, grammar_level)
    /\ UNCHANGED <<pc, assignments, subjects, knowledge, origin, grammar_level,
                   started_vocab, pos_dict>>
    /\ UNCHANGED <<tier, grammar_ret, posVars, cacheVars, restVars>>

NextBuilder ==
    \/ NewSentenceBuilder
    \/ GetAvailableWordsByPos
    \/ BuildBasicSentence

Next ==
    \/ FetchVocabulary
    \/ GetUserKnowledge
    \/ NextBuilder

Spec == Init /\ [][Next]_vars

SpecBuilder == InitBuilder /\ [][NextBuilder]_vars

-----------------------------------------------------------------------------
(* _normalize_pos on its own *)

TagWords ==
    { STR_verb, STR_adverb, STR_noun, STR_adjective, STR_expression,
      <<"g","o","d","a","n">>, <<"i","c","h","i","d","a","n">>,
      <<"I">>, <<"NA">>, <<"NO">> }

RECURSIVE TagsOf(_)
\* the tags of exactly n words, separated by one space
TagsOf(n) ==
    IF n = 1 THEN TagWords
    ELSE {t \o <<" ">> \o w : t \in TagsOf(n - 1), w \in TagWords}

Tags == UNION {TagsOf(n) : n \in 1..MaxTagWords}

InitPos ==
    /\ pos_tag \in Tags
    /\ pos_norm = NoneStr
    /\ BuilderIdle
    /\ GrammarIdle
    /\ CacheIdle
    /\ RestIdle

NormalizePos ==
    /\ pos_norm = NoneStr
    /\ pos_norm' = normalize_pos(pos_tag)
    /\ UNCHANGED <<pos_tag, builderVars, grammarVars, cacheVars, restVars>>

SpecPos == InitPos /\ [][NormalizePos]_vars

-----------------------------------------------------------------------------
(* get_grammar_elements over tables with and without key collisions *)

GrammarKeyList == <<STR_HA, <<"HE">>, STR_WO, <<"KA","RA">>>>

GrammarKeys == {GrammarKeyList[i] : i \in 1..NumGrammarKeys}

\* two entries a table may hold under one key
VariantEntry(key, v) ==
    IF v = 1 THEN Entry(key, <<"r","1">>, "first") ELSE Entry(key, <<"r","2">>, "second")

\* the dicts over some of the keys
EntryDicts ==
    UNION {{[key \in D |-> VariantEntry(key, f[key])] : f \in [D -> 1..2]} :
            D \in SUBSET GrammarKeys}

\* the table of the source file, and tables whose two tiers may share keys
Tables ==
    {GRAMMAR_ELEMENTS}
    \cup {(STR_beginner :> ((STR_particles :> bp)
                            @@ (STR_verb_endings :> BeginnerVerbEndings)))
          @@ (STR_intermediate :> ((STR_particles :> ip)
                                   @@ (STR_verb_endings :> IntermediateVerbEndings)))
            : bp \in EntryDicts, ip \in EntryDicts}
    \cup {(STR_beginner :> ((STR_particles :> bp)
                            @@ (STR_verb_endings :> BeginnerVerbEndings)))
          @@ (STR_intermediate :> (STR_particles :> ip))
            : bp \in EntryDicts, ip \in EntryDicts}

STR_advanced == <<"a","d","v","a","n","c","e","d">>

Tiers == {STR_beginner, STR_intermediate, STR_advanced}

InitGrammar ==
    /\ grammar_table \in Tables
    /\ tier \in Tiers
    /\ grammar_ret = NotReturned
    /\ BuilderIdle
    /\ PosIdle
    /\ CacheIdle
    /\ RestIdle

GetGrammarElements ==
    /\ ~grammar_ret.returned
    /\ grammar_ret' = [returned |-> TRUE,
                    value |-> get_grammar_elements(grammar_table, tier)]
    /\ grammar_table' = grammar_table_after(grammar_table, tier)
    /\ UNCHANGED <<tier, builderVars, posVars, cacheVars, restVars>>

SpecGrammar == InitGrammar /\ [][GetGrammarElements]_vars

-----------------------------------------------------------------------------
(* The cache directory over time *)

\* WaniKaniAPI.__init__ has made the cache directory; it may hold anything
InitCache ==
    /\ files \in [CacheKeys -> {NoFile, <<>>, json_dumps(JList(<<>>))}]
    /\ clock = 0
    /\ cache_ret = NoCall
    /\ last_saved = [key \in CacheKeys |-> NotSaved]
    /\ BuilderIdle
    /\ PosIdle
    /\ GrammarIdle
    /\ RestIdle

SaveCache ==
    /\ \E key \in CacheKeys, data \in Payloads :
        /\ files' = [files EXCEPT ![key] = save_cache(data, clock)]
        /\ last_saved' = [last_saved EXCEPT
                            ![key] = [saved |-> TRUE, data |-> data, at |-> clock]]
    /\ cache_ret' = NoCall
    /\ UNCHANGED <<clock, builderVars, posVars, grammarVars, restVars>>

LoadCache ==
    /\ \E key \in CacheKeys, max_age_hours \in 0..MaxAgeHours :
        cache_ret' = [called |-> TRUE, key |-> key, max_age_hours |-> max_age_hours,
                      outcome |-> load_cache(files[key], max_age_hours, clock)]
    /\ UNCHANGED <<files, clock, last_saved, builderVars, posVars, grammarVars, restVars>>

\* time passes
Tick ==
    /\ clock < MaxTicks * (SecondsPerHour \div 2)
    /\ clock' = clock + (SecondsPerHour \div 2)
    /\ cache_ret' = NoCall
    /\ UNCHANGED <<files, last_saved, builderVars, posVars, grammarVars, restVars>>

\* something else writes, truncates or removes a cache file
ForeignWrite ==
    /\ \E key \in CacheKeys, text \in ForeignTexts \cup {NoFile} :
        /\ files' = [files EXCEPT ![key] = text]
        /\ last_saved' = [last_saved EXCEPT ![key] = NotSaved]
    /\ cache_ret' = NoCall
    /\ UNCHANGED <<clock, builderVars, posVars, grammarVars, restVars>>

NextCache ==
    \/ SaveCache
    \/ LoadCache
    \/ Tick
    \/ ForeignWrite

SpecCache == InitCache /\ [][NextCache]_vars

-----------------------------------------------------------------------------
(* wanikani/client.py: _make_request, one loop step at a time *)

\* number of pages a collection endpoint has, at most
MaxPages == 3

\* a response as requests.get returns it
Response(status_code, json_ok, body) ==
    [fails |-> FALSE, status_code |-> status_code, json_ok |-> json_ok, body |-> body]

\* requests.get raises: no response arrives
TransportFailure ==
    [fails |-> TRUE, status_code |-> 0, json_ok |-> FALSE, body |-> EmptyDict]

\* the records page i carries when it carries n of them
PageRecords(i, n) == [j \in 1..n |-> 10 * i + j]

\* the body of page i of a chain of n pages; the last page has no next_url,
\* either as null (last = 0) or with no pages member at all (last = 1);
\* recs < 0 leaves the data member out
PageBody(i, n, recs, last) ==
    LET pages == [k \in {"next_url"} |-> IF i < n THEN i + 1 ELSE NoneUrl]
        data == PageRecords(i, recs)
    IN  IF recs < 0
        THEN IF i = n /\ last = 1 THEN [k \in {"object"} |-> "collection"]
             ELSE [k \in {"pages"} |-> pages]
        ELSE IF i = n /\ last = 1 THEN [k \in {"data"} |-> data]
             ELSE [k \in {"data", "pages"} |-> IF k = "data" THEN data ELSE pages]

\* the body the service sends along with an error status
ErrorBody == [k \in {"error"} |-> "Unauthorized"]

\* what the service may answer for page i of n
Replies(i, n, last) ==
    {Response(200, TRUE, PageBody(i, n, recs, last)) : recs \in {0 - 1, 1, 2}}
    \cup {Response(401, TRUE, ErrorBody), Response(200, FALSE, EmptyDict),
          TransportFailure}

RECURSIVE Chains(_, _, _)
\* the answers for the pages 1..i of a chain of n pages
Chains(i, n, last) ==
    IF i = 0 THEN {<<>>}
    ELSE {Append(c, r) : c \in Chains(i - 1, n, last), r \in Replies(i, n, last)}

\* raise_for_status gone wrong: an error status is let through
raise_for_status_Never(response) == FALSE

\* response.raise_for_status() raises
raise_for_status(response) == response.status_code >= 400

\* results.extend gone wrong: the page replaces what was collected
extend_Replace(results_, data) ==
    IF "data" \in DOMAIN data THEN data["data"] ELSE results_

\* if "data" in data: results.extend(data["data"])
extend(results_, data) ==
    IF "data" \in DOMAIN data THEN results_ \o data["data"] ELSE results_

\* data.get("pages", {}).get("next_url")
next_url(data) == DictGet(DictGet(data, "pages", EmptyDict), "next_url", NoneUrl)

\* time.sleep(0.5), in tenths of a second
DelayTenths == 5

\* an entry of the history: a request for a page, the response to it, or a
\* sleep of so many tenths of a second
Event(ev, arg) == [ev |-> ev, arg |-> arg]

InitRequest ==
    /\ endpoint \in {"user", "assignments"}
    /\ \E n \in 1..MaxPages, last \in {0, 1} : server \in Chains(n, n, last)
    /\ url = NoneUrl
    /\ results = <<>>
    /\ req_pc = "idle"
    /\ req_ret = Unset
    /\ req_log = <<>>
    /\ BuilderIdle
    /\ PosIdle
    /\ GrammarIdle
    /\ CacheIdle
    /\ GptIdle
    /\ CliIdle
    /\ AggIdle
    /\ FrameIdle
    /\ RtIdle

\* lines 22-23: the call starts at the first page
MakeRequest ==
    /\ req_pc = "idle"
    /\ url' = 1
    /\ results' = <<>>
    /\ req_pc' = "loop"
    /\ UNCHANGED <<endpoint, server, req_ret, req_log, notRequestVars>>

\* line 26: requests.get is called and blocks
SendRequest ==
    /\ req_pc = "loop"
    /\ url # NoneUrl
    /\ req_log' = Append(req_log, Event("request", url))
    /\ req_pc' = "waiting"
    /\ UNCHANGED <<endpoint, server, url, results, req_ret, notRequestVars>>

\* lines 26-39: the answer arrives and the page is taken in
Respond ==
    /\ req_pc = "waiting"
    /\ LET response == server[url]
       IN  IF response.fails
           THEN /\ req_ret' = Raised("ConnectionError")
                /\ req_pc' = "raised"
                /\ UNCHANGED <<url, results, req_log>>
           ELSE IF raise_for_status(response)
           THEN /\ req_ret' = Raised("HTTPError")
                /\ req_pc' = "raised"
                /\ req_log' = Append(req_log, Event("response", url))
                /\ UNCHANGED <<url, results>>
           ELSE IF ~response.json_ok
           THEN /\ req_ret' = Raised("JSONDecodeError")
                /\ req_pc' = "raised"
                /\ req_log' = Append(req_log, Event("response", url))
                /\ UNCHANGED <<url, results>>
           ELSE LET data == response.body
                IN  /\ req_log' = Append(req_log, Event("response", url))
                    /\ IF endpoint = "user"
                       THEN /\ req_ret' = ReturnedValue(data)
                            /\ req_pc' = "done"
                            /\ UNCHANGED <<url, results>>
                       ELSE /\ results' = extend(results, data)
                            /\ url' = next_url(data)
                            /\ req_pc' = "sleeping"
                            /\ UNCHANGED req_ret
    /\ UNCHANGED <<endpoint, server, notRequestVars>>

\* the loop gone wrong: the next page is asked for at once
Sleep_Skipped ==
    /\ req_pc = "sleeping"
    /\ req_pc' = "loop"
    /\ UNCHANGED <<endpoint, server, url, results, req_ret, req_log, notRequestVars>>

\* line 42: time.sleep(0.5)
Sleep ==
    /\ req_pc = "sleeping"
    /\ req_log' = Append(req_log, Event("sleep", DelayTenths))
    /\ req_pc' = "loop"
    /\ UNCHANGED <<endpoint, server, url, results, req_ret, notRequestVars>>

\* lines 25 and 44: the loop ends and the list is returned
ReturnResults ==
    /\ req_pc = "loop"
    /\ url = NoneUrl
    /\ req_ret' = ReturnedValue([k \in {"data"} |-> results])
    /\ req_pc' = "done"
    /\ UNCHANGED <<endpoint, server, url, results, req_log, notRequestVars>>

NextRequest ==
    \/ MakeRequest
    \/ SendRequest
    \/ Respond
    \/ Sleep
    \/ ReturnResults

SpecRequest == InitRequest /\ [][NextRequest]_vars

-----------------------------------------------------------------------------
(* wanikani/sentence_builder.py: generate_sentence_with_gpt *)

\* number of calls of generate_sentence_with_gpt a run makes, at most
MaxGptCalls == 3

\* the largest num_sentences a caller asks for
MaxSentences == 3

\* the model service answers with response.choices[0].message.content
Reply(content) == [fails |-> FALSE, has_content |-> TRUE, content |-> content]

\* client.chat.completions.create raises
ReplyFailure == [fails |-> TRUE, has_content |-> FALSE, content |-> <<>>]

\* the reply carries no content: message.content is None
ReplyNoContent == [fails |-> FALSE, has_content |-> FALSE, content |-> <<"none">>]

\* one entry of a sentences array
SentenceEntry(japanese) ==
    JObj(<<Member("japanese", JStr(japanese)), Member("reading", JStr(<<"k1">>)),
           Member("english", JStr(<<"e">>)), Member("word_by_word", JList(<<>>))>>)

\* what the model service may answer
GptReplies ==
    { ReplyFailure,
      ReplyNoContent,
      Reply(<<>>),
      Reply(<<Punct("{"), StringLex("sentences"), Punct(":")>>),
      Reply(json_dumps(JNull)),
      Reply(json_dumps(JList(<<SentenceEntry(<<"K1">>)>>))),
      Reply(json_dumps(JObj(<<Member("result", JList(<<SentenceEntry(<<"K1">>)>>))>>))),
      Reply(json_dumps(JObj(<<Member("sentences", JList(<<>>))>>))),
      Reply(json_dumps(JObj(<<Member("sentences", JStr(<<"K1">>))>>))),
      Reply(json_dumps(JObj(<<Member("sentences",
                JList(<<JObj(<<Member("japanese", JStr(<<"K1">>))>>)>>))>>))),
      Reply(json_dumps(JObj(<<Member("sentences", JList(<<SentenceEntry(<<"K1">>)>>))>>))),
      Reply(json_dumps(JObj(<<Member("sentences",
                JList(<<SentenceEntry(<<"K1">>), SentenceEntry(<<"K2">>)>>)),
                              Member("note", JStr(<<"n">>))>>))) }

\* the exceptions of the try block, all of them subclasses of Exception
ExceptionSubclasses ==
    {"APIConnectionError", "TypeError", "JSONDecodeError", "KeyError"}

\* the except clause gone wrong: it names the parse errors only
CaughtByGenerate_ParseErrorsOnly(exc) ==
    exc \in {"JSONDecodeError", "KeyError"}

\* except Exception as e
CaughtByGenerate(exc) ==
    exc \in ExceptionSubclasses

\* lines 239-241: what the except clause makes of an exception
GptExcept(exc) ==
    IF CaughtByGenerate(exc) THEN ReturnedValue(JList(<<>>)) ELSE Raised(exc)

\* lines 224-241, once the request has been answered
gpt_result(reply) ==
    IF reply.fails THEN GptExcept("APIConnectionError")
    ELSE IF ~reply.has_content THEN GptExcept("TypeError")
    ELSE LET parsed == json_loads(reply.content)
         IN  IF ~parsed.ok THEN GptExcept("JSONDecodeError")
             ELSE LET sentences == Subscript(parsed.value, "sentences")
                  IN  IF ~sentences.ok THEN GptExcept(sentences.exc)
                      ELSE ReturnedValue(sentences.value)

InitGpt ==
    /\ openai_api_key \in {NoneStr, <<>>, <<"s","k">>}
    /\ num_sentences = 0
    /\ gpt_pc = "idle"
    /\ gpt_requests = 0
    /\ gpt_reply = NoReply
    /\ gpt_ret = Unset
    /\ gpt_calls = 0
    /\ BuilderIdle
    /\ PosIdle
    /\ GrammarIdle
    /\ CacheIdle
    /\ RequestIdle
    /\ CliIdle
    /\ AggIdle
    /\ FrameIdle
    /\ RtIdle

\* lines 172-234: the credential is checked, the prompt is built and the one
\* request is sent
GenerateSentenceWithGpt ==
    /\ gpt_pc \in {"idle", "done", "raised"}
    /\ gpt_calls < MaxGptCalls
    /\ gpt_calls' = gpt_calls + 1
    /\ \E n \in 1..MaxSentences : num_sentences' = n
    /\ gpt_reply' = NoReply
    /\ IF ~Truthy(openai_api_key)
       THEN /\ gpt_ret' = Raised("ValueError")
            /\ gpt_requests' = 0
            /\ gpt_pc' = "raised"
       ELSE /\ gpt_ret' = Unset
            /\ gpt_requests' = 1
            /\ gpt_pc' = "requesting"
    /\ UNCHANGED <<openai_api_key, notGptVars>>

\* lines 226-241: the model service answers, or the request fails
ModelAnswers ==
    /\ gpt_pc = "requesting"
    /\ \E reply \in GptReplies :
        /\ gpt_reply' = reply
        /\ gpt_ret' = gpt_result(reply)
        /\ gpt_pc' = IF gpt_result(reply).kind = "raised" THEN "raised" ELSE "done"
    /\ UNCHANGED <<openai_api_key, num_sentences, gpt_requests, gpt_calls, notGptVars>>

NextGpt ==
    \/ GenerateSentenceWithGpt
    \/ ModelAnswers

SpecGpt == InitGpt /\ [][NextGpt]_vars

-----------------------------------------------------------------------------
(* main.py: the CLI driver *)

STR_key == <<"s","k">>

\* what parse_args makes of a command line: the args, or the exit argparse
\* takes for --help (status 0) and for a command line it rejects (status 2)
Parsed(stats_only, level, n) ==
    [exits |-> FALSE, status |-> 0,
     args |-> [stats_only |-> stats_only, level |-> level, num_sentences |-> n]]

ParserExit(status) == [exits |-> TRUE, status |-> status, args |-> NoArgs]

\* the command lines, as parse_args sees them
CommandLines ==
    {Parsed(stats_only, level, 3) :
        stats_only \in BOOLEAN, level \in {STR_beginner, STR_intermediate}}
    \cup {ParserExit(0), ParserExit(2)}

\* the config file: absent, not JSON, or an object with some of the two keys
ConfigFile(exists, valid, wanikani, openai) ==
    [exists |-> exists, valid |-> valid, wanikani_api_key |-> wanikani,
     openai_api_key |-> openai]

ConfigFiles ==
    { ConfigFile(FALSE, FALSE, NoneStr, NoneStr),
      ConfigFile(TRUE, FALSE, NoneStr, NoneStr),
      ConfigFile(TRUE, TRUE, NoneStr, NoneStr),
      ConfigFile(TRUE, TRUE, STR_key, NoneStr),
      ConfigFile(TRUE, TRUE, STR_key, STR_key) }

\* the lines standard input holds
Stdins == { <<>>, <<STR_key>>, <<STR_key, <<>>>>, <<STR_key, STR_key>> }

\* get_api_keys, given the config file and standard input
get_api_keys(file, stdin) ==
    IF file.exists /\ ~file.valid THEN Raised("JSONDecodeError")
    ELSE LET ask_w == ~Truthy(file.wanikani_api_key)
             ask_o == ~Truthy(file.openai_api_key)
             rest == IF ask_w /\ stdin # <<>> THEN Tail(stdin) ELSE stdin
         IN  IF ask_w /\ stdin = <<>> THEN Raised("EOFError")
             ELSE IF ask_o /\ rest = <<>> THEN Raised("EOFError")
             ELSE [kind |-> "returned",
                   wanikani_key |-> IF ask_w THEN Head(stdin) ELSE file.wanikani_api_key,
                   openai_key |-> IF ask_o THEN Head(rest) ELSE file.openai_api_key]

\* the two requests of fetch_vocabulary may each fail
RequestOutcomes == {"ok", "HTTPError", "ConnectionError"}

\* the fetched items either all list their parts of speech, or one of them
\* has None there
VocabKinds == {"listed", "parts_of_speech_none"}

\* print_vocabulary_stats raises on an item whose parts_of_speech is None
stats_raises(vocab) == vocab = "parts_of_speech_none"

\* main gone wrong: generation also runs with --stats-only
after_stats_Always(args) == "generate"

\* line 170: where main goes after the statistics
after_stats(args) == IF ~args.stats_only THEN "generate" ELSE "return"

\* the keys a dict must have for the print loop of generate_sentences
SentenceKeys == {"japanese", "reading", "english", "word_by_word"}

\* lines 137-144: the print loop of generate_sentences raises
print_raises(sentences) ==
    CASE sentences.t = "array" ->
            \E i \in DOMAIN sentences.items :
                \/ sentences.items[i].t # "object"
                \/ \E key \in SentenceKeys :
                        ~Subscript(sentences.items[i], key).ok
                \/ Subscript(sentences.items[i], "word_by_word").value.t # "array"
      [] sentences.t = "string" -> sentences.str # <<>>
      [] sentences.t = "object" -> sentences.members # <<>>
      [] OTHER -> TRUE

\* SentenceBuilder.__init__, line 50
builder_key(openai_key, environ) ==
    IF Truthy(openai_key) THEN openai_key ELSE environ

InitCli ==
    /\ cli_pc = "start"
    /\ cli_args = NoArgs
    /\ cli_environ \in {NoneStr, STR_key}
    /\ cli_keys = NoKeys
    /\ cli_vocab = "none"
    /\ cli_exc = "none"
    /\ cli_log = <<>>
    /\ cli_stderr = <<>>
    /\ exit_status = NoneInt
    /\ BuilderIdle
    /\ PosIdle
    /\ GrammarIdle
    /\ CacheIdle
    /\ RequestIdle
    /\ GptIdle
    /\ AggIdle
    /\ FrameIdle
    /\ RtIdle

\* lines 147-154, outside the try
ParseArgs ==
    /\ cli_pc = "start"
    /\ \E line \in CommandLines :
        IF line.exits
        THEN /\ exit_status' = line.status
             /\ cli_stderr' = IF line.status = 0 THEN <<>> ELSE <<"usage", "error">>
             /\ cli_pc' = "exited"
             /\ cli_log' = Append(cli_log, "parser_exit")
             /\ UNCHANGED cli_args
        ELSE /\ cli_args' = line.args
             /\ cli_pc' = "bootstrap"
             /\ UNCHANGED <<exit_status, cli_stderr, cli_log>>
    /\ UNCHANGED <<cli_environ, cli_keys, cli_vocab, cli_exc, notCliVars>>

\* line 158
GetApiKeys ==
    /\ cli_pc = "bootstrap"
    /\ \E file \in ConfigFiles, stdin \in Stdins :
        LET keys == get_api_keys(file, stdin)
        IN  IF keys.kind = "raised"
            THEN /\ cli_exc' = keys.exc
                 /\ cli_pc' = "except"
                 /\ cli_log' = Append(cli_log, "bootstrap_raised")
                 /\ UNCHANGED cli_keys
            ELSE /\ cli_keys' = [wanikani_key |-> keys.wanikani_key,
                                 openai_key |-> keys.openai_key]
                 /\ cli_pc' = "fetch"
                 /\ UNCHANGED <<cli_exc, cli_log>>
    /\ UNCHANGED <<cli_args, cli_environ, cli_vocab, cli_stderr, exit_status, notCliVars>>

\* lines 161-164: fetch_vocabulary asks for the subjects, then for the
\* assignments
FetchVocabularyOfMain ==
    /\ cli_pc = "fetch"
    /\ \E subjects_outcome \in RequestOutcomes, assignments_outcome \in RequestOutcomes,
          vocab \in VocabKinds :
        IF subjects_outcome # "ok"
        THEN /\ cli_exc' = subjects_outcome
             /\ cli_pc' = "except"
             /\ cli_log' = cli_log \o <<"request_subjects", "fetch_raised">>
             /\ UNCHANGED cli_vocab
        ELSE IF assignments_outcome # "ok"
        THEN /\ cli_exc' = assignments_outcome
             /\ cli_pc' = "except"
             /\ cli_log' = cli_log \o <<"request_subjects", "request_assignments",
                                        "fetch_raised">>
             /\ UNCHANGED cli_vocab
        ELSE /\ cli_vocab' = vocab
             /\ cli_pc' = "stats"
             /\ cli_log' = cli_log \o <<"request_subjects", "request_assignments",
                                        "fetch_done">>
             /\ UNCHANGED cli_exc
    /\ UNCHANGED <<cli_args, cli_environ, cli_keys, cli_stderr, exit_status, notCliVars>>

\* lines 167-170: print_vocabulary_stats
PrintVocabularyStats ==
    /\ cli_pc = "stats"
    /\ IF stats_raises(cli_vocab)
       THEN /\ cli_exc' = "TypeError"
            /\ cli_pc' = "except"
            /\ cli_log' = Append(cli_log, "stats_raised")
       ELSE /\ cli_pc' = after_stats(cli_args)
            /\ cli_log' = Append(cli_log, "stats")
            /\ UNCHANGED cli_exc
    /\ UNCHANGED <<cli_args, cli_environ, cli_keys, cli_vocab, cli_stderr, exit_status,
                   notCliVars>>

\* line 171: generate_sentences
GenerateSentences ==
    /\ cli_pc = "generate"
    /\ IF ~Truthy(builder_key(cli_keys.openai_key, cli_environ))
       THEN /\ cli_exc' = "ValueError"
            /\ cli_pc' = "except"
            /\ cli_log' = Append(cli_log, "generation_raised")
       ELSE \E reply \in GptReplies :
                LET sentences == gpt_result(reply)
                    sent == <<"model_request">>
                            \o (IF reply.fails THEN <<"model_request_failed">> ELSE <<>>)
                IN  IF sentences.kind = "raised"
                    THEN /\ cli_exc' = sentences.exc
                         /\ cli_pc' = "except"
                         /\ cli_log' = cli_log \o sent \o <<"generation_raised">>
                    ELSE IF print_raises(sentences.value)
                    THEN /\ cli_exc' = "TypeError"
                         /\ cli_pc' = "except"
                         /\ cli_log' = cli_log \o sent \o <<"generation_raised">>
                    ELSE /\ cli_pc' = "return"
                         /\ cli_log' = cli_log \o sent
                                \o (IF sentences.value.t = "array"
                                       /\ sentences.value.items # <<>>
                                    THEN <<"sentences">> ELSE <<"zero_sentences">>)
                         /\ UNCHANGED cli_exc
    /\ UNCHANGED <<cli_args, cli_environ, cli_keys, cli_vocab, cli_stderr, exit_status,
                   notCliVars>>

\* main returns and the interpreter exits
ReturnFromMain ==
    /\ cli_pc = "return"
    /\ exit_status' = 0
    /\ cli_pc' = "exited"
    /\ UNCHANGED <<cli_args, cli_environ, cli_keys, cli_vocab, cli_exc, cli_log,
                   cli_stderr, notCliVars>>

\* the handler gone wrong: the message is printed and main returns
HandleException_NoExit ==
    /\ cli_pc = "except"
    /\ cli_stderr' = Append(cli_stderr, cli_exc)
    /\ exit_status' = 0
    /\ cli_pc' = "exited"
    /\ UNCHANGED <<cli_args, cli_environ, cli_keys, cli_vocab, cli_exc, cli_log,
                   notCliVars>>

\* lines 173-175: except Exception as e
HandleException ==
    /\ cli_pc = "except"
    /\ cli_stderr' = Append(cli_stderr, cli_exc)
    /\ exit_status' = 1
    /\ cli_pc' = "exited"
    /\ UNCHANGED <<cli_args, cli_environ, cli_keys, cli_vocab, cli_exc, cli_log,
                   notCliVars>>

NextCli ==
    \/ ParseArgs
    \/ GetApiKeys
    \/ FetchVocabularyOfMain
    \/ PrintVocabularyStats
    \/ GenerateSentences
    \/ ReturnFromMain
    \/ HandleException

SpecCli == InitCli /\ [][NextCli]_vars

-----------------------------------------------------------------------------
(* wanikani/client.py: get_user_knowledge with its cache *)

\* number of calls of get_user_knowledge in one run
MaxAggCalls == 2

\* cache_key of get_user_knowledge, for the one credential of the run
knowledge_cache_key == "knowledge_cache_a"

\* what a request of the aggregator comes to
AggOutcomes == {"ok", "HTTPError", "ConnectionError"}

\* the cache directory holds nothing, or what an earlier run or something
\* else left there; the server's responses are fixed for the run
InitKnowledge ==
    /\ pc = "idle"
    /\ origin = "none"
    /\ \E fa \in {0, 3}, fm \in {1, 3} :
        /\ assignments =
            Present([id \in {1} |-> AssignmentFor(id, STR_vocabulary, fa)], 1)
                \o <<KanjiAssignment>>
        /\ subjects =
            [vocabulary |->
                Present([id \in {1} |-> SubjectFor(id, "vocabulary", PosOfSubject(id), fm)],
                        1),
             kanji |-> <<KanjiSubject>>]
    /\ knowledge = Unset
    /\ NoBuilder
    /\ PosIdle
    /\ GrammarIdle
    /\ \E text \in {NoFile, json_dumps(JList(<<>>)), save_cache(JObj(<<>>), 0),
                    <<Punct("{"), StringLex("timestamp")>>} :
        files = [key \in CacheKeys |-> IF key = knowledge_cache_key THEN text ELSE NoFile]
    /\ clock = 0
    /\ cache_ret = NoCall
    /\ last_saved = [key \in CacheKeys |-> NotSaved]
    /\ RequestIdle
    /\ GptIdle
    /\ CliIdle
    /\ AggIdle
    /\ FrameIdle
    /\ RtIdle

\* what the cached branch of get_user_knowledge makes of what load_cache gave
FromCache(loaded) ==
    IF loaded.kind = "raised" THEN [pc |-> "raised", ret |-> loaded]
    ELSE IF ~PyTruthy(loaded.value) THEN [pc |-> "user", ret |-> Unset]
    ELSE LET cached == from_dict(loaded.value)
         IN  IF cached.ok THEN [pc |-> "done", ret |-> ReturnedValue(cached.value)]
             ELSE [pc |-> "raised", ret |-> Raised(cached.exc)]

\* get_user_knowledge is called: the cache is tried first, if asked for
CallGetUserKnowledge ==
    /\ agg_pc \in {"idle", "done", "raised"}
    /\ agg_calls < MaxAggCalls
    /\ agg_calls' = agg_calls + 1
    /\ agg_entry' = files[knowledge_cache_key]
    /\ agg_now' = clock
    /\ \E uc \in BOOLEAN, max_age_hours \in 0..MaxAgeHours :
        /\ use_cache' = uc
        /\ agg_max_age' = max_age_hours
        /\ IF uc
           THEN LET next == FromCache(load_cache(files[knowledge_cache_key],
                                                 max_age_hours, clock))
                IN  /\ agg_log' = <<"load_cache">>
                    /\ agg_pc' = next.pc
                    /\ agg_ret' = next.ret
           ELSE /\ agg_log' = <<>>
                /\ agg_pc' = "user"
                /\ agg_ret' = Unset
    /\ UNCHANGED <<oldVars, notAggVars>>

\* one request of the aggregator: it succeeds, or its exception ends the call
AggRequest(at, what, then) ==
    /\ agg_pc = at
    /\ agg_log' = Append(agg_log, what)
    /\ \E outcome \in AggOutcomes :
        IF outcome = "ok"
        THEN agg_pc' = then /\ agg_ret' = agg_ret
        ELSE agg_pc' = "raised" /\ agg_ret' = Raised(outcome)
    /\ UNCHANGED <<use_cache, agg_max_age, agg_entry, agg_now, agg_calls>>
    /\ UNCHANGED <<oldVars, notAggVars>>

RequestUser == AggRequest("user", "user", "assignments")

RequestAssignments == AggRequest("assignments", "assignments", "vocabulary")

RequestVocabulary == AggRequest("vocabulary", "vocabulary", "kanji")

RequestKanji == AggRequest("kanji", "kanji", "build")

\* the records are converted, the snapshot is built, saved if the cache is
\* in use, and returned
BuildAndSave ==
    /\ agg_pc = "build"
    /\ LET built == get_user_knowledge(UserResponse.data, assignments,
                                       subjects.vocabulary, subjects.kanji)
       IN  /\ agg_ret' = ReturnedValue(built)
           /\ IF use_cache
              THEN /\ files' = [files EXCEPT
                                  ![knowledge_cache_key] = save_cache(to_dict(built), clock)]
                   /\ agg_log' = Append(agg_log, "save_cache")
              ELSE UNCHANGED <<files, agg_log>>
    /\ agg_pc' = "done"
    /\ UNCHANGED <<use_cache, agg_max_age, agg_entry, agg_now, agg_calls>>
    /\ UNCHANGED <<clock, cache_ret, last_saved>>
    /\ UNCHANGED <<builderVars, posVars, grammarVars, notAggVars>>

NextKnowledge ==
    \/ CallGetUserKnowledge
    \/ RequestUser
    \/ RequestAssignments
    \/ RequestVocabulary
    \/ RequestKanji
    \/ BuildAndSave
    \/ Tick

SpecKnowledge == InitKnowledge /\ [][NextKnowledge]_vars

-----------------------------------------------------------------------------
(* wanikani/sentence_builder.py: get_vocabulary_prompt *)

LowerCase == <<"a","b","c","d","e","f","g","h","i","j","k","l","m",
               "n","o","p","q","r","s","t","u","v","w","x","y","z">>
UpperCase == <<"A","B","C","D","E","F","G","H","I","J","K","L","M",
               "N","O","P","Q","R","S","T","U","V","W","X","Y","Z">>

IsLetter(c) == \E i \in DOMAIN LowerCase : c = LowerCase[i] \/ c = UpperCase[i]

Upper(c) ==
    IF \E i \in DOMAIN LowerCase : c = LowerCase[i]
    THEN UpperCase[CHOOSE i \in DOMAIN LowerCase : c = LowerCase[i]]
    ELSE c

\* str.title: a letter that follows no letter is made upper case
Title(str) ==
    [i \in DOMAIN str |->
        IF i = 1 \/ ~IsLetter(str[i - 1]) THEN Upper(str[i]) ELSE str[i]]

\* an Optional[str] inside an f-string
Format(v) == IF v = NoneStr THEN <<"None">> ELSE v

\* the number of words listed per category
PromptExamples == 5

\* the order of the keys of pos_dict
PosKeyOrder == <<STR_verb, STR_noun, STR_adjective, STR_adverb, STR_expression>>

\* the categories of the dict get_grammar_elements returns, in one order
CategoryOrder(grammar) == KeysInOrder(DOMAIN grammar)

\* the lines of one category of words
WordLines(pos, words) ==
    IF words = <<>> THEN <<>>
    ELSE <<"\n">> \o Title(pos) \o <<"s", ":", "\n">>
         \o Join([i \in 1..(IF Len(words) < PromptExamples THEN Len(words)
                            ELSE PromptExamples) |->
                    <<"- ">> \o words[i].characters
                    \o <<" (">> \o Format(primary_reading(words[i]))
                    \o <<") - ">> \o Format(primary_meaning(words[i])) \o <<"\n">>])

\* the lines of one category of grammar elements
GrammarLines(category, entries) ==
    LET chars == KeysInOrder(DOMAIN entries)
    IN  <<"\n">> \o Title(category) \o <<":", "\n">>
        \o Join([i \in DOMAIN chars |->
                    <<"- ">> \o entries[chars[i]].characters
                    \o <<" (">> \o entries[chars[i]].reading
                    \o <<") - ", entries[chars[i]].meaning, "\n">>])

\* SentenceBuilder.get_vocabulary_prompt
get_vocabulary_prompt(k, started, table, level) ==
    LET available_words == get_available_words_by_pos(k, started)
        grammar == get_grammar_elements(table, level)
        categories == CategoryOrder(grammar)
    IN  <<"Generate a natural Japanese sentence using these components:\n\n",
          "Available vocabulary:\n">>
        \o Join([i \in DOMAIN PosKeyOrder |->
                    WordLines(PosKeyOrder[i], available_words[PosKeyOrder[i]])])
        \o <<"\nAvailable grammar elements:\n">>
        \o Join([i \in DOMAIN categories |->
                    GrammarLines(categories[i], grammar[categories[i]])])
        \o <<"\nPlease generate a natural sentence using some of these vocabulary items and grammar elements.">>

-----------------------------------------------------------------------------
(* The sentence builder and what it leaves alone *)

\* number of words of a snapshot the builder is given
MaxFrameWords == 2

\* a snapshot built by hand; the module-level table is as the source sets it
InitFrame ==
    /\ pc = "snapshot"
    /\ origin = "direct"
    /\ assignments = <<>>
    /\ subjects = [vocabulary |-> <<>>, kanji |-> <<>>]
    /\ \E n \in 0..MaxFrameWords :
        \E f \in DirectLists(n) :
            knowledge = [vocabulary |-> f, kanji |-> <<>>, level |-> 3]
    /\ NoBuilder
    /\ PosIdle
    /\ GrammarIdle
    /\ CacheIdle
    /\ RestIdle

\* get_grammar_elements, called on the builder
GetGrammarElementsOfBuilder ==
    /\ pc = "builder"
    /\ elements_ret' = [returned |-> TRUE,
                        value |-> get_grammar_elements(grammar_table, grammar_level)]
    /\ grammar_table' = grammar_table_after(grammar_table, grammar_level)
    /\ UNCHANGED <<prompt, builderVars, tier, grammar_ret, posVars, cacheVars>>
    /\ UNCHANGED <<requestVars, gptVars, cliVars, aggVars, rtVars>>

\* get_vocabulary_prompt, which calls get_available_words_by_pos and
\* get_grammar_elements
GetVocabularyPrompt ==
    /\ pc = "builder"
    /\ prompt' = [returned |-> TRUE,
                  value |-> get_vocabulary_prompt(knowledge, started_vocab,
                                                  grammar_table, grammar_level)]
    /\ grammar_table' = grammar_table_after(grammar_table, grammar_level)
    /\ UNCHANGED <<elements_ret, builderVars, tier, grammar_ret, posVars, cacheVars>>
    /\ UNCHANGED <<requestVars, gptVars, cliVars, aggVars, rtVars>>

NextFrame ==
    \/ NewSentenceBuilder
    \/ GetAvailableWordsByPos
    \/ GetGrammarElementsOfBuilder
    \/ GetVocabularyPrompt
    \/ BuildBasicSentence

SpecFrame == InitFrame /\ [][NextFrame]_vars

-----------------------------------------------------------------------------
(* wanikani/models.py and the cache: a snapshot out and back *)

\* number of words of a snapshot that is serialized
MaxSnapshotWords == 2

\* the items a snapshot may hold for one id: built by hand; with no stage, a
\* started_at of None and no tag; with stage 0, no reading and no user data;
\* with components and a second meaning; with an onyomi reading
SnapshotItemsOf(id) ==
    LET started == [k \in {"started_at"} |-> STR_timestamp]
        item == DirectItem(id, <<STR_noun, STR_suru_verb>>, started, TRUE)
    IN  { item,
          [item EXCEPT !.srs_stage = NoneInt,
                       !.user_specific_data = [k \in {"started_at"} |-> NoneStr],
                       !.parts_of_speech = <<>>],
          [item EXCEPT !.srs_stage = 0, !.readings = <<>>,
                       !.user_specific_data = EmptyDict],
          [item EXCEPT !.component_subject_ids = <<KanjiId, KanjiId + 1>>,
                       !.meanings = @ \o <<[meaning |-> "n", primary |-> FALSE,
                                           accepted_answer |-> FALSE]>>],
          [item EXCEPT !.readings = <<[reading |-> <<WordReads[id]>>, primary |-> FALSE,
                                       accepted_answer |-> FALSE, type |-> "onyomi"]>>] }

RECURSIVE SnapshotLists(_)
\* the vocabulary lists of the words 1..n
SnapshotLists(n) ==
    IF n = 0 THEN {<<>>}
    ELSE {Append(f, item) : f \in SnapshotLists(n - 1), item \in SnapshotItemsOf(n)}

\* the kanji list: none, or the one kanji as _convert_to_wanikani_item builds
\* it, with its stage or without
KanjiLists ==
    { <<>>,
      <<convert_to_wanikani_item(KanjiSubject, 5)>>,
      <<convert_to_wanikani_item(KanjiSubject, NoneInt)>> }

\* a snapshot is at hand; the cache directory is empty
InitSnapshot ==
    /\ pc = "snapshot"
    /\ origin = "direct"
    /\ assignments = <<>>
    /\ subjects = [vocabulary |-> <<>>, kanji |-> <<>>]
    /\ \E n \in 0..MaxSnapshotWords :
        \E f \in SnapshotLists(n), kanji \in KanjiLists, level \in {0, 3} :
            knowledge = [vocabulary |-> f, kanji |-> kanji, level |-> level]
    /\ NoBuilder
    /\ PosIdle
    /\ GrammarIdle
    /\ CacheIdle
    /\ RequestIdle
    /\ GptIdle
    /\ CliIdle
    /\ AggIdle
    /\ FrameIdle
    /\ rt_pc = "start"
    /\ rt_data = JNull
    /\ rt_back = Unset

\* knowledge.to_dict()
ToDict ==
    /\ rt_pc = "start"
    /\ rt_data' = to_dict(knowledge)
    /\ rt_pc' = "dict"
    /\ UNCHANGED <<rt_back, oldVars, requestVars, gptVars, cliVars, aggVars, frameVars>>

\* UserKnowledge.from_dict, given the dict as to_dict returned it
FromDict ==
    /\ rt_pc = "dict"
    /\ rt_back' = from_dict(rt_data)
    /\ rt_pc' = "back"
    /\ UNCHANGED <<rt_data, oldVars, requestVars, gptVars, cliVars, aggVars, frameVars>>

\* get_user_knowledge, lines 174-175: the dict is saved
SaveSnapshot ==
    /\ rt_pc = "dict"
    /\ files' = [files EXCEPT ![knowledge_cache_key] = save_cache(rt_data, clock)]
    /\ last_saved' = [last_saved EXCEPT
                        ![knowledge_cache_key] =
                            [saved |-> TRUE, data |-> rt_data, at |-> clock]]
    /\ rt_pc' = "saved"
    /\ UNCHANGED <<rt_data, rt_back, clock, cache_ret>>
    /\ UNCHANGED <<builderVars, posVars, grammarVars>>
    /\ UNCHANGED <<requestVars, gptVars, cliVars, aggVars, frameVars>>

\* get_user_knowledge, lines 108-111: a later call reads the cache
ServeFromCache ==
    /\ rt_pc = "saved"
    /\ \E max_age_hours \in 0..MaxAgeHours :
        LET next == FromCache(load_cache(files[knowledge_cache_key],
                                         max_age_hours, clock))
        IN  /\ rt_back' = next.ret
            /\ rt_pc' = CASE next.pc = "done" -> "served"
                          [] next.pc = "user" -> "missed"
                          [] OTHER -> "raised"
    /\ UNCHANGED <<rt_data, oldVars, requestVars, gptVars, cliVars, aggVars, frameVars>>

NextSnapshot ==
    \/ ToDict
    \/ FromDict
    \/ SaveSnapshot
    \/ Tick
    \/ ServeFromCache

SpecSnapshot == InitSnapshot /\ [][NextSnapshot]_vars

-----------------------------------------------------------------------------
(* Claims about the started set and the sentence template *)

\* the progress record says the subject is not started
Unstarted(a) == DictGet(a.data, "started_at", NoneStr) = NoneStr

\* the ids of the subjects whose progress record has no started timestamp
UnstartedIds == {assignments[i].data.subject_id :
                    i \in {j \in DOMAIN assignments : Unstarted(assignments[j])}}

SnapshotIds == {knowledge.vocabulary[i].id : i \in DOMAIN knowledge.vocabulary}

\* C1: a subject whose progress record has no started timestamp is never in
\* the started-vocabulary set used for sentence building, whatever its
\* srs_stage: neither in the list fetch_vocabulary returns nor in the
\* started_vocab of a SentenceBuilder built on get_user_knowledge's snapshot.
C1_UnstartedNeverStarted ==
    /\ (origin = "fetch_vocabulary" /\ pc \in {"snapshot", "builder"})
            => SnapshotIds \cap UnstartedIds = {}
    /\ (origin \in {"fetch_vocabulary", "get_user_knowledge"} /\ pc = "builder")
            => started_vocab \cap UnstartedIds = {}

\* the half of C1 that is about main.py alone
FetchVocabularyDropsUnstarted ==
    (origin = "fetch_vocabulary" /\ pc \in {"snapshot", "builder"})
        => /\ SnapshotIds \cap UnstartedIds = {}
           /\ pc = "builder" => started_vocab \cap UnstartedIds = {}

AvailableNouns == Range(get_available_words_by_pos(knowledge, started_vocab)[STR_noun])

AvailableVerbs == Range(get_available_words_by_pos(knowledge, started_vocab)[STR_verb])

\* C2: build_basic_sentence returns none, and raises nothing, whenever fewer
\* than 2 distinct nouns or fewer than 1 verb are available.
C2_NoneWhenVocabularyInsufficient ==
    (pc = "builder" /\ result # Unset
     /\ (Cardinality(AvailableNouns) < 2 \/ Cardinality(AvailableVerbs) < 1))
        => result = ReturnedNone

\* C3: a returned sentence has the 5 slots [subject noun, HA, object noun, WO,
\* verb]; its character string is the concatenation of the slots' characters
\* and its reading string the concatenation of the slots' readings (the
\* primary reading of a word), in slot order; subject and object come from the
\* noun bucket and the verb from the verb bucket.
C3_FiveSlotsInOrder ==
    (pc = "builder" /\ result # Unset /\ result.kind = "sentence") =>
        LET items == result.sentence_items
        IN  /\ Len(items) = 5
            /\ items[1] \in AvailableNouns
            /\ items[2] = Entry(<<"HA">>, <<"w","a">>, "topic marker")
            /\ items[3] \in AvailableNouns
            /\ items[4] = Entry(<<"WO">>, <<"o">>, "object marker")
            /\ items[5] \in AvailableVerbs
            /\ result.japanese = items[1].characters \o <<"HA">> \o items[3].characters
                                    \o <<"WO">> \o items[5].characters
            /\ result.reading = primary_reading(items[1]) \o <<"w","a">>
                                    \o primary_reading(items[3]) \o <<"o">>
                                    \o primary_reading(items[5])
            /\ \A i \in {1, 3, 5} : primary_reading(items[i]) # NoneStr

C3_Witness ==
    /\ pc = "builder" /\ result # Unset /\ result.kind = "sentence"
    /\ grammar_level = STR_intermediate

\* C4: in a returned sentence the object slot is another vocabulary item than
\* the subject slot, also when the noun bucket lists a word more than once.
C4_ObjectDiffersFromSubject ==
    (pc = "builder" /\ result # Unset /\ result.kind = "sentence") =>
        /\ result.sentence_items[3] # result.sentence_items[1]
        /\ result.sentence_items[3].id # result.sentence_items[1].id

C4_Witness ==
    /\ pc = "builder" /\ result # Unset /\ result.kind = "sentence"
    /\ LET nouns == get_available_words_by_pos(knowledge, started_vocab)[STR_noun]
       IN  \E i, j \in DOMAIN nouns :
                i # j /\ nouns[i] = nouns[j] /\ nouns[i] = result.sentence_items[1]

\* the subjects with a started progress record of type vocabulary
StartedIds == {assignments[i].data.subject_id :
                i \in {j \in DOMAIN assignments :
                        /\ ~Unstarted(assignments[j])
                        /\ assignments[j].data.subject_type = STR_vocabulary}}

MetadataIds == {subjects.vocabulary[i].id : i \in DOMAIN subjects.vocabulary}

\* the progress response holds started records for 2 nouns and 1 verb, and
\* the metadata response holds exactly those 3 subjects
TwoNounsOneVerb ==
    /\ MetadataIds = StartedIds
    /\ Cardinality({id \in StartedIds : PosOfSubject(id) = <<STR_noun>>}) = 2
    /\ Cardinality({id \in StartedIds : PosOfSubject(id) = <<STR_godan_verb>>}) = 1

\* C5: with started records for 2 nouns and 1 verb and metadata for exactly
\* those 3 subjects, build_basic_sentence on the snapshot of
\* get_user_knowledge returns 3 words and 2 particles with a non-empty
\* reading string.
C5_EndToEndSentence ==
    (origin = "get_user_knowledge" /\ pc = "builder" /\ result # Unset
     /\ TwoNounsOneVerb)
        => /\ result.kind = "sentence"
           /\ Len(result.sentence_items) = 5
           /\ Cardinality({i \in 1..5 : ~IsDict(result.sentence_items[i])}) = 3
           /\ Cardinality({i \in 1..5 : IsDict(result.sentence_items[i])}) = 2
           /\ result.reading # <<>>

\* a word of the snapshot that the builder counts as started
StartedWord(w) ==
    /\ w \in Range(knowledge.vocabulary)
    /\ "started_at" \in DOMAIN w.user_specific_data
    /\ w.user_specific_data["started_at"] \notin {NoneStr, <<>>}

\* C6: get_available_words_by_pos returns exactly the five keys verb, noun,
\* adjective, adverb, expression for every snapshot, and every word in a
\* bucket is a started word of the snapshot's vocabulary.
C6_FiveKeysStartedOnly ==
    (pc = "builder" /\ pos_dict.returned) =>
        /\ DOMAIN pos_dict.value =
            {<<"v","e","r","b">>, <<"n","o","u","n">>,
             <<"a","d","j","e","c","t","i","v","e">>, <<"a","d","v","e","r","b">>,
             <<"e","x","p","r","e","s","s","i","o","n">>}
        /\ \A key \in DOMAIN pos_dict.value :
            \A i \in DOMAIN pos_dict.value[key] : StartedWord(pos_dict.value[key][i])

\* a snapshot with words of which none is started: five empty buckets
C6_Witness ==
    /\ pc = "builder" /\ pos_dict.returned
    /\ knowledge.vocabulary # <<>>
    /\ \A key \in DOMAIN pos_dict.value : pos_dict.value[key] = <<>>

\* the empty snapshot
C6_WitnessEmpty ==
    /\ pc = "builder" /\ pos_dict.returned
    /\ knowledge.vocabulary = <<>>

\* a snapshot with a started and an unstarted word: the buckets hold the first
C6_WitnessMixed ==
    /\ pc = "builder" /\ pos_dict.returned
    /\ \E key \in DOMAIN pos_dict.value : pos_dict.value[key] # <<>>
    /\ \E i \in DOMAIN knowledge.vocabulary : ~StartedWord(knowledge.vocabulary[i])

-----------------------------------------------------------------------------
(* Claims about part-of-speech tags and grammar tables *)

HasVerb(tag) == Contains(<<"v","e","r","b">>, tag)

HasAdjective(tag) ==
    \E kana \in {"I", "NA", "NO"} :
        Contains(<<kana, " ", "a","d","j","e","c","t","i","v","e">>, tag)

\* C7 as stated: a raw tag containing "verb" normalizes to verb; a tag
\* containing "I adjective", "NA adjective" or "NO adjective" normalizes to
\* adjective; every other tag is returned unchanged.
C7_NormalizePosAsStated ==
    pos_norm # NoneStr =>
        /\ HasVerb(pos_tag) => pos_norm = <<"v","e","r","b">>
        /\ HasAdjective(pos_tag) => pos_norm = <<"a","d","j","e","c","t","i","v","e">>
        /\ (~HasVerb(pos_tag) /\ ~HasAdjective(pos_tag)) => pos_norm = pos_tag

\* C7, amended: a raw tag containing "verb" normalizes to verb; a tag that
\* does not contain "verb" and contains "I adjective", "NA adjective" or
\* "NO adjective" normalizes to adjective; every other tag is returned
\* unchanged.
C7_NormalizePos ==
    pos_norm # NoneStr =>
        /\ HasVerb(pos_tag) => pos_norm = <<"v","e","r","b">>
        /\ (~HasVerb(pos_tag) /\ HasAdjective(pos_tag))
                => pos_norm = <<"a","d","j","e","c","t","i","v","e">>
        /\ (~HasVerb(pos_tag) /\ ~HasAdjective(pos_tag)) => pos_norm = pos_tag

C7_Witness ==
    /\ pos_tag = <<"NO"," ","a","d","j","e","c","t","i","v","e">>
    /\ pos_norm = <<"a","d","j","e","c","t","i","v","e">>

\* a tag with both patterns
C7_WitnessBoth ==
    /\ HasVerb(pos_tag) /\ HasAdjective(pos_tag)
    /\ pos_norm = <<"v","e","r","b">>

C7_WitnessVerb ==
    /\ pos_tag = <<"g","o","d","a","n"," ","v","e","r","b">>
    /\ pos_norm = <<"v","e","r","b">>

C7_WitnessNoun ==
    /\ pos_tag = <<"n","o","u","n">>
    /\ pos_norm = pos_tag

Categories == {STR_particles, STR_verb_endings}

\* C10: for tier intermediate every category holds every beginner entry and
\* every intermediate entry, the intermediate entry winning where both tiers
\* have the key; for tier beginner, or a tier with no table, the result is
\* exactly the beginner entries.
C10_GrammarMerge ==
    grammar_ret.returned =>
        LET b == grammar_table[STR_beginner]
            i == grammar_table[STR_intermediate]
            e == grammar_ret.value
        IN  IF tier = STR_intermediate
            THEN /\ DOMAIN e = Categories
                 /\ \A c \in Categories :
                        LET ic == IF c \in DOMAIN i THEN i[c] ELSE EmptyDict
                        IN  /\ DOMAIN e[c] = DOMAIN b[c] \cup DOMAIN ic
                            /\ \A key \in DOMAIN ic : e[c][key] = ic[key]
                            /\ \A key \in DOMAIN b[c] \ DOMAIN ic : e[c][key] = b[c][key]
            ELSE /\ DOMAIN e = Categories
                 /\ \A c \in Categories :
                        /\ DOMAIN e[c] = DOMAIN b[c]
                        /\ \A key \in DOMAIN b[c] : e[c][key] = b[c][key]

\* both tiers have a particle under one key, with different entries
C10_Witness ==
    /\ grammar_ret.returned
    /\ tier = STR_intermediate
    /\ \E key \in DOMAIN grammar_table[STR_beginner][STR_particles]
                    \cap DOMAIN grammar_table[STR_intermediate][STR_particles] :
            grammar_table[STR_beginner][STR_particles][key]
                # grammar_table[STR_intermediate][STR_particles][key]

\* the table of the source file, merged for tier intermediate
C10_WitnessSource ==
    /\ grammar_ret.returned
    /\ tier = STR_intermediate
    /\ grammar_table = GRAMMAR_ELEMENTS

\* a tier that has no table
C10_WitnessNoTable ==
    /\ grammar_ret.returned
    /\ tier \notin DOMAIN grammar_table

-----------------------------------------------------------------------------
(* Claims about the cache *)

\* the seconds since save_cache wrote the file the last call of load_cache read
Elapsed == clock - last_saved[cache_ret.key].at

\* C8: save_cache(payload, key) followed by load_cache(key, max_age), with no
\* other write to that key in between and the elapsed time within max_age,
\* returns data equal to the payload saved.
C8_CacheRoundTrip ==
    (/\ cache_ret.called
     /\ last_saved[cache_ret.key].saved
     /\ Elapsed <= cache_ret.max_age_hours * 3600)
        => cache_ret.outcome = ReturnedValue(last_saved[cache_ret.key].data)

\* a nested payload, read back half an hour after it was saved
C8_Witness ==
    /\ cache_ret.called
    /\ last_saved[cache_ret.key].saved
    /\ Elapsed > 0
    /\ Elapsed <= cache_ret.max_age_hours * 3600
    /\ last_saved[cache_ret.key].data.t = "object"
    /\ last_saved[cache_ret.key].data.members # <<>>

\* the text is valid JSON
ValidJson(text) == json_loads(text).ok

\* the value is an object with a timestamp that is a str of digits, and a data
\* field
WellFormedEnvelope(value) ==
    /\ value.t = "object"
    /\ \E i \in DOMAIN value.members :
        /\ value.members[i].k = "timestamp"
        /\ \A j \in DOMAIN value.members : value.members[j].k = "timestamp" => j <= i
        /\ value.members[i].v.t = "string"
        /\ value.members[i].v.str # <<>>
        /\ \A c \in DOMAIN value.members[i].v.str : IsDigit(value.members[i].v.str[c])
    /\ \E i \in DOMAIN value.members : value.members[i].k = "data"

\* the entry is older than max_age_hours
Stale(value, max_age_hours) ==
    clock - fromisoformat(Subscript(value, "timestamp").value).seconds
        > max_age_hours * 3600

\* the file load_cache has just read gives no usable entry
CacheMiss ==
    LET text == files[cache_ret.key]
    IN  \/ text = NoFile
        \/ ~ValidJson(text)
        \/ ~WellFormedEnvelope(json_loads(text).value)
        \/ Stale(json_loads(text).value, cache_ret.max_age_hours)

\* C9: load_cache never raises; it returns none when the file is missing, is
\* not valid JSON, holds a malformed envelope, or holds a stale entry.
C9_LoadCacheNeverRaises ==
    cache_ret.called =>
        /\ cache_ret.outcome.kind = "returned"
        /\ CacheMiss => cache_ret.outcome = ReturnedValue(JNull)

\* the part of C9 the except clause does give: no file, no JSON, an object
\* without timestamp or data, a timestamp that is a str but no date, a stale
\* entry
LoadCacheMissesCaught ==
    (/\ cache_ret.called
     /\ CacheMiss
     /\ LET text == files[cache_ret.key]
        IN  (text # NoFile /\ ValidJson(text)) =>
                /\ json_loads(text).value.t = "object"
                /\ Subscript(json_loads(text).value, "timestamp").ok
                    => Subscript(json_loads(text).value, "timestamp").value.t = "string")
        => cache_ret.outcome = ReturnedValue(JNull)

-----------------------------------------------------------------------------
(* Claims about the snapshot of get_user_knowledge *)

\* the items of the snapshot, vocabulary and kanji
SnapshotItems == Range(knowledge.vocabulary) \cup Range(knowledge.kanji)

\* the snapshot at hand is the one get_user_knowledge returned
FromGetUserKnowledge ==
    origin = "get_user_knowledge" /\ pc \in {"snapshot", "builder"}

\* C11: the snapshot get_user_knowledge returns holds an item only if its
\* subject id is in the started mapping built from the progress records, and
\* every item carries the SRS stage of its matching progress record.
C11_SnapshotStartedOnly ==
    FromGetUserKnowledge =>
        \A item \in SnapshotItems :
            /\ item.id \in DOMAIN assignment_lookup(assignments)
            /\ item.srs_stage = assignment_lookup(assignments)[item.id]

\* the part of C11 the code gives: an item whose id is in the started mapping
\* carries the stage of that mapping, every other item carries None
SnapshotStagesFromLookup ==
    FromGetUserKnowledge =>
        \A item \in SnapshotItems :
            item.srs_stage = DictGet(assignment_lookup(assignments), item.id, NoneInt)

-----------------------------------------------------------------------------
(* Claims about _make_request *)

\* the pages asked for, in the order they were asked for
Requested ==
    LET reqs == SelectSeq(req_log, LAMBDA e : e.ev = "request")
    IN  [i \in DOMAIN reqs |-> reqs[i].arg]

\* the service answers page i with a page
PageOk(i) ==
    /\ ~server[i].fails
    /\ server[i].status_code = 200
    /\ server[i].json_ok

RECURSIVE RecordsUpTo(_)
\* the data records of the pages 1..i, in page order
RecordsUpTo(i) ==
    IF i = 0 THEN <<>>
    ELSE RecordsUpTo(i - 1)
            \o (IF "data" \in DOMAIN server[i].body THEN server[i].body["data"] ELSE <<>>)

\* C12: for a collection endpoint whose pages form a finite chain,
\* _make_request fetches every page exactly once, in cursor order, stops at
\* the page with no next cursor and returns the concatenation of all pages'
\* data records in page order; for the user endpoint it issues exactly one
\* request and returns that response.
C12_Pagination ==
    /\ (req_pc = "done" /\ endpoint # "user") =>
            /\ Requested = [i \in 1..Len(server) |-> i]
            /\ req_ret = ReturnedValue([k \in {"data"} |-> RecordsUpTo(Len(server))])
    /\ (req_pc = "done" /\ endpoint = "user") =>
            /\ Requested = <<1>>
            /\ req_ret = ReturnedValue(server[1].body)
    /\ (\A i \in DOMAIN server : PageOk(i)) => req_pc # "raised"

\* three pages, at least two of them with records, all fetched
C12_Witness ==
    /\ req_pc = "done"
    /\ endpoint # "user"
    /\ Len(server) = 3
    /\ Len(req_ret.value["data"]) >= 3

C12_WitnessUser ==
    /\ req_pc = "done"
    /\ endpoint = "user"
    /\ Len(server) > 1

\* C13: if a page fetch fails, that page is not requested again, no later
\* page is requested, the error reaches the caller, and no partial list of
\* the records fetched so far is returned.
C13_FailurePropagates ==
    /\ Requested = [i \in 1..Len(Requested) |-> i]
    /\ req_pc = "raised" =>
            /\ ~PageOk(Len(Requested))
            /\ req_ret.kind = "raised"
    /\ (\E i \in DOMAIN Requested : ~PageOk(Requested[i])) =>
            /\ req_pc \in {"waiting", "raised"}
            /\ req_ret = Unset \/ req_ret.kind = "raised"
            /\ ~PageOk(Len(Requested))
            /\ \A i \in 1..(Len(Requested) - 1) : PageOk(i)

\* the second page answers with an error status after the first page gave
\* records, and later pages exist
C13_Witness ==
    /\ req_pc = "raised"
    /\ endpoint # "user"
    /\ Requested = <<1, 2>>
    /\ Len(server) = 3
    /\ results # <<>>
    /\ server[2].status_code = 401
    /\ req_ret = Raised("HTTPError")

C13_WitnessTransport ==
    /\ req_pc = "raised"
    /\ Requested = <<1, 2>>
    /\ server[2].fails
    /\ req_ret = Raised("ConnectionError")

\* C18: within one call the requests are strictly sequential (a page is asked
\* for only after the response to the page before it was received) and one
\* delay of the fixed length lies between every two consecutive page requests.
C18_SequentialWithDelay ==
    \A i, j \in DOMAIN req_log :
        (/\ i < j
         /\ req_log[i].ev = "request"
         /\ req_log[j].ev = "request"
         /\ \A m \in (i + 1)..(j - 1) : req_log[m].ev # "request")
            => /\ \E a, b \in (i + 1)..(j - 1) :
                    /\ a < b
                    /\ req_log[a] = Event("response", req_log[i].arg)
                    /\ req_log[b] = Event("sleep", 5)
               /\ Cardinality({b \in (i + 1)..(j - 1) : req_log[b].ev = "sleep"}) = 1

C18_Witness ==
    /\ req_pc = "done"
    /\ Requested = <<1, 2, 3>>

-----------------------------------------------------------------------------
(* Claims about generate_sentence_with_gpt *)

\* the reply is parseable JSON that has the sentences key
ReplyHasSentences(reply) ==
    /\ ~reply.fails
    /\ reply.has_content
    /\ json_loads(reply.content).ok
    /\ json_loads(reply.content).value.t = "object"
    /\ \E i \in DOMAIN json_loads(reply.content).value.members :
            json_loads(reply.content).value.members[i].k = "sentences"

\* the value under the sentences key of the reply
SentencesOf(reply) ==
    LET members == json_loads(reply.content).value.members
        at == {i \in DOMAIN members : members[i].k = "sentences"}
    IN  members[CHOOSE i \in at : \A j \in at : j <= i].v

\* C14: with a credential, generate_sentence_with_gpt issues exactly one model
\* request; if the request fails in transport, or the reply is no parseable
\* JSON, or the reply lacks the sentences key, an empty list is returned and
\* no error reaches the caller; otherwise the reply's sentences array is
\* returned.
C14_OneRequestFailuresCaught ==
    (Truthy(openai_api_key) /\ gpt_pc # "idle") =>
        /\ gpt_requests = 1
        /\ gpt_pc \in {"requesting", "done"}
        /\ gpt_pc = "done" =>
            IF ReplyHasSentences(gpt_reply)
            THEN gpt_ret = ReturnedValue(SentencesOf(gpt_reply))
            ELSE gpt_ret = ReturnedValue(JList(<<>>))

\* the request failed in transport and the caller got the empty list
C14_Witness ==
    /\ Truthy(openai_api_key)
    /\ gpt_pc = "done"
    /\ gpt_reply.fails
    /\ gpt_ret = ReturnedValue(JList(<<>>))

C14_WitnessSentences ==
    /\ gpt_pc = "done"
    /\ ReplyHasSentences(gpt_reply)
    /\ gpt_ret.value.t = "array"
    /\ Len(gpt_ret.value.items) = 2

C14_WitnessNoKey ==
    /\ gpt_pc = "done"
    /\ ~gpt_reply.fails
    /\ gpt_reply.has_content
    /\ json_loads(gpt_reply.content).ok
    /\ ~ReplyHasSentences(gpt_reply)
    /\ gpt_ret = ReturnedValue(JList(<<>>))

-----------------------------------------------------------------------------
(* Claims about the CLI driver *)

\* the run did this
Did(what) == \E i \in DOMAIN cli_log : cli_log[i] = what

\* credential bootstrap, the remote fetch, statistics or generation raised
SomeStepRaised ==
    \/ Did("bootstrap_raised")
    \/ Did("fetch_raised")
    \/ Did("stats_raised")
    \/ Did("generation_raised")

\* C15 as stated: the driver exits with status 1, after one line on the error
\* stream, whenever credential bootstrap, the remote fetch, statistics or
\* generation raises, and with status 0 in every other run, including a run
\* in which the model request failed and generation produced zero sentences.
C15_ExitStatusAsStated ==
    cli_pc = "exited" =>
        /\ IF SomeStepRaised
           THEN exit_status = 1 /\ Len(cli_stderr) = 1
           ELSE exit_status = 0
        /\ (Did("model_request_failed") /\ Did("zero_sentences")) => exit_status = 0

\* C15, amended: status 1 after one line on the error stream whenever one of
\* the four steps raises; status 0 in every other run in which parse_args
\* returns, including a run whose model request failed; a run whose command
\* line argparse rejects exits with status 2 before credential bootstrap.
C15_ExitStatus ==
    cli_pc = "exited" =>
        /\ IF SomeStepRaised
           THEN exit_status = 1 /\ Len(cli_stderr) = 1
           ELSE IF Did("parser_exit")
           THEN exit_status \in {0, 2} /\ cli_log = <<"parser_exit">>
           ELSE exit_status = 0
        /\ (Did("model_request_failed") /\ Did("zero_sentences")) => exit_status = 0

\* the model request failed, no sentence came, and the run ended with 0
C15_Witness ==
    /\ cli_pc = "exited"
    /\ Did("model_request_failed")
    /\ Did("zero_sentences")
    /\ exit_status = 0

C15_WitnessFetchRaised ==
    /\ cli_pc = "exited"
    /\ Did("fetch_raised")
    /\ exit_status = 1

C15_WitnessRejected ==
    /\ cli_pc = "exited"
    /\ exit_status = 2

\* C16: statistics are printed only after the vocabulary fetch has completed
\* and before any model request; with --stats-only the run stops after the
\* statistics and no model request is ever issued.
C16_StatsBetweenFetchAndModel ==
    /\ \A i \in DOMAIN cli_log :
        cli_log[i] = "stats" =>
            /\ \E j \in 1..(i - 1) : cli_log[j] = "fetch_done"
            /\ \A j \in 1..(i - 1) : cli_log[j] # "model_request"
    /\ \A i \in DOMAIN cli_log :
        cli_log[i] = "model_request" => \E j \in 1..(i - 1) : cli_log[j] = "stats"
    /\ cli_args.stats_only =>
            /\ ~Did("model_request")
            /\ Did("stats") => cli_log[Len(cli_log)] = "stats"
            /\ (Did("stats") /\ cli_pc = "exited") => exit_status = 0

\* a run that printed the statistics and then asked the model
C16_Witness ==
    /\ cli_pc = "exited"
    /\ Did("stats")
    /\ Did("model_request")

C16_WitnessStatsOnly ==
    /\ cli_pc = "exited"
    /\ cli_args.stats_only
    /\ Did("stats")

-----------------------------------------------------------------------------
(* Claims about get_user_knowledge and its cache *)

\* the cache file the call found holds an entry: an envelope with a timestamp
\* and data
HasEntry ==
    /\ agg_entry # NoFile
    /\ ValidJson(agg_entry)
    /\ WellFormedEnvelope(json_loads(agg_entry).value)

\* the seconds between the entry's timestamp and the call
EntryAge ==
    agg_now - fromisoformat(Subscript(json_loads(agg_entry).value, "timestamp").value).seconds

\* the entry the call found is younger than max_age
Younger == HasEntry /\ EntryAge < agg_max_age * 3600

\* the snapshot the entry holds
EntrySnapshot == from_dict(Subscript(json_loads(agg_entry).value, "data").value)

\* the requests of the call, in the order they were issued
AggRequests == SelectSeq(agg_log, LAMBDA e : e \notin {"load_cache", "save_cache"})

RequestOrder == <<"user", "assignments", "vocabulary", "kanji">>

IsPrefix(s, t) == Len(s) <= Len(t) /\ s = SubSeq(t, 1, Len(s))

\* C17: get_user_knowledge with use_cache true serves the snapshot from the
\* cache entry of the credential-derived key, with no network request, if
\* that entry exists and is younger than max_age; otherwise it issues the
\* requests in the order user profile, progress records, vocabulary
\* metadata, kanji metadata, and writes the cache entry only after all of
\* them succeeded. With use_cache false the cache is neither read nor written.
C17_CacheWrapsAggregate ==
    agg_pc # "idle" =>
        /\ (use_cache /\ Younger) =>
            /\ agg_pc = "done"
            /\ AggRequests = <<>>
            /\ EntrySnapshot.ok
            /\ agg_ret = ReturnedValue(EntrySnapshot.value)
        /\ (use_cache /\ ~Younger) =>
            /\ IsPrefix(AggRequests, RequestOrder)
            /\ agg_pc \in {"done", "raised"} => AggRequests # <<>>
            /\ agg_pc = "done" => AggRequests = RequestOrder
            /\ (\E i \in DOMAIN agg_log : agg_log[i] = "save_cache") =>
                agg_log = <<"load_cache">> \o RequestOrder \o <<"save_cache">>
            /\ agg_pc = "raised" => files[knowledge_cache_key] = agg_entry
        /\ ~use_cache =>
            /\ agg_log = AggRequests
            /\ files[knowledge_cache_key] = agg_entry

\* the cache file holds a JSON list: load_cache raises, no request is issued
C17_ListInCacheFile ==
    /\ use_cache
    /\ agg_entry = json_dumps(JList(<<>>))
    /\ agg_pc = "raised"
    /\ AggRequests = <<>>

\* what holds of the code: the cache decides by what load_cache returns
C17_AsCoded ==
    agg_pc # "idle" =>
        LET loaded == load_cache(agg_entry, agg_max_age, agg_now)
            served == use_cache /\ loaded.kind = "returned" /\ PyTruthy(loaded.value)
            failed == use_cache /\ loaded.kind = "raised"
        IN  /\ served => AggRequests = <<>> /\ agg_pc \in {"done", "raised"}
            /\ failed => AggRequests = <<>> /\ agg_pc = "raised" /\ agg_ret = loaded
            /\ (~served /\ ~failed) =>
                /\ IsPrefix(AggRequests, RequestOrder)
                /\ agg_pc = "done" => AggRequests = RequestOrder
                /\ agg_pc = "raised" => files[knowledge_cache_key] = agg_entry
            /\ ~use_cache =>
                /\ agg_log = AggRequests
                /\ files[knowledge_cache_key] = agg_entry

-----------------------------------------------------------------------------
(* Claims about the adverb bucket *)

\* C20: a started word whose part-of-speech tag is "adverb" is listed in the
\* adverb bucket returned by get_available_words_by_pos, and is not listed in
\* the verb bucket unless it also carries a verb tag.
C20_AdverbInAdverbBucket ==
    (pc = "builder" /\ pos_dict.returned) =>
        \A i \in DOMAIN knowledge.vocabulary :
            LET w == knowledge.vocabulary[i]
            IN  (StartedWord(w) /\ STR_adverb \in Range(w.parts_of_speech)) =>
                    /\ w \in Range(pos_dict.value[STR_adverb])
                    /\ w \in Range(pos_dict.value[STR_verb]) =>
                        \E tag \in Range(w.parts_of_speech) :
                            tag # STR_adverb /\ HasVerb(tag)

\* a started word tagged "adverb" and nothing else, listed as a verb
C20_AdverbListedAsVerb ==
    /\ pc = "builder" /\ pos_dict.returned
    /\ \E i \in DOMAIN knowledge.vocabulary :
        LET w == knowledge.vocabulary[i]
        IN  /\ StartedWord(w)
            /\ w.parts_of_speech = <<STR_adverb>>
            /\ w \in Range(pos_dict.value[STR_verb])
            /\ w \notin Range(pos_dict.value[STR_adverb])

-----------------------------------------------------------------------------
(* Cross-check of the two readings of get_grammar_elements *)

\* the dict read through the objects is the dict the merge computes
ElementsReturnedIsMerge ==
    grammar_ret.returned => grammar_ret.value = elements_returned(grammar_table, tier)

-----------------------------------------------------------------------------
(* Claims about what the sentence builder leaves alone *)

\* C19: the sentence builder consumes the snapshot read-only: constructing a
\* SentenceBuilder and calling get_available_words_by_pos,
\* get_grammar_elements, get_vocabulary_prompt and build_basic_sentence, in
\* any sequence, leave the knowledge snapshot (vocabulary, kanji, level and
\* every field of every item) and the module-level grammar tables unchanged.
C19_SnapshotAndTablesUnchanged ==
    [][knowledge' = knowledge /\ grammar_table' = grammar_table]_vars

\* an intermediate builder on which all four methods have returned, a
\* sentence among the results
C19_Witness ==
    /\ pc = "builder"
    /\ grammar_level = STR_intermediate
    /\ pos_dict.returned
    /\ elements_ret.returned
    /\ prompt.returned
    /\ result # Unset
    /\ result.kind = "sentence"
    /\ grammar_table = GRAMMAR_ELEMENTS

\* a prompt that lists a started word and the particles of both levels
C19_WitnessPrompt ==
    /\ prompt.returned
    /\ \E i \in DOMAIN prompt.value : prompt.value[i] = "K1"
    /\ \E i \in DOMAIN prompt.value : prompt.value[i] = "topic marker"
    /\ \E i \in DOMAIN prompt.value : prompt.value[i] = "towards"
    /\ \E i \in 1..(Len(prompt.value) - 1) :
        prompt.value[i] = "P" /\ prompt.value[i + 1] = "a"

-----------------------------------------------------------------------------
(* Claims about the serialization of a snapshot *)

\* C21: for every UserKnowledge k, UserKnowledge.from_dict(k.to_dict()) equals
\* k: the same vocabulary and kanji items in the same order, the same level,
\* the same srs_stage and user_specific_data per item; so a snapshot served
\* from the cache equals the snapshot that was saved.
C21_SnapshotRoundTrip ==
    /\ rt_pc = "back" => rt_back = Ok(knowledge)
    /\ rt_pc = "served" => rt_back = ReturnedValue(knowledge)
    /\ rt_pc # "raised"

\* a snapshot of two words, one with a stage and one without, and a kanji,
\* served from the cache half an hour or more after it was saved
C21_Witness ==
    /\ rt_pc = "served"
    /\ clock > 0
    /\ Len(knowledge.vocabulary) >= 2
    /\ knowledge.kanji # <<>>
    /\ \E i \in DOMAIN knowledge.vocabulary : knowledge.vocabulary[i].srs_stage = NoneInt
    /\ \E i \in DOMAIN knowledge.vocabulary : knowledge.vocabulary[i].srs_stage # NoneInt
    /\ \E i \in DOMAIN knowledge.vocabulary :
        /\ "started_at" \in DOMAIN knowledge.vocabulary[i].user_specific_data
        /\ knowledge.vocabulary[i].user_specific_data["started_at"] = NoneStr

\* the same, without the cache
C21_WitnessInMemory ==
    /\ rt_pc = "back"
    /\ Len(knowledge.vocabulary) >= 2
    /\ \E i \in DOMAIN knowledge.vocabulary :
        knowledge.vocabulary[i].component_subject_ids # <<>>
    /\ \E i \in DOMAIN knowledge.vocabulary : knowledge.vocabulary[i].readings = <<>>

\* the empty snapshot comes back from the cache as well
C21_WitnessEmpty ==
    /\ rt_pc = "served"
    /\ knowledge.vocabulary = <<>>
    /\ knowledge.kanji = <<>>
    /\ knowledge.level = 0

\* a cache entry older than max_age is not served
C21_WitnessMissed == rt_pc = "missed"

====
